---- MODULE Spec2Model ----
(***************************************************************************)
(* A model of the newsletter pipeline: the shared Gemini rate limiter, the *)
(* parallel extraction stage, bucketing and per-bucket deduplication, the  *)
(* newsletter assembly and the run orchestrator of main.py.                *)
(*                                                                         *)
(* Each component has its own specification over its own group of          *)
(* variables; the variables of the other groups stay at their initial      *)
(* values in that specification.                                           *)
(***************************************************************************)
EXTENDS Integers, Sequences, FiniteSets, TLC

VARIABLES
    \* ---- GeminiRateLimiter (news_extraction.py) ----
    now,          \* the value time.time() returns, in seconds
    ticks,        \* how many times the clock has advanced (bounds the run)
    requests,     \* GeminiRateLimiter.requests: the recorded timestamps
    lpc,          \* per caller: position inside wait_if_needed
    wake,         \* per caller: when its time.sleep(1) ends
    grants,       \* history: the timestamp of every acquire() that returned True
    \* ---- extraction stage (news_extraction.py) ----
    oracle,       \* per news message: what the extraction oracle does for it
    record,       \* per news message: which fields of its record hold text
    parallel,     \* ENABLE_PARALLEL_PROCESSING
    poolSize,     \* the max_workers argument
    epc,          \* position of extract_individual_news_items
    tstate,       \* per message: state of its _extract_single_email task
    tresult,      \* per message: what its future holds
    all_results,  \* (index, items) pairs in the order as_completed yielded them
    completed,    \* ProcessingMonitor.completed
    output,       \* the list the stage returns
    \* ---- bucketing and deduplication (news_deduplication.py) ----
    news_items,   \* the extracted items given to deduplicate_and_aggregate_news
    oracleMode,   \* which group lists the clustering oracle is taken to return
    dpc,          \* position of deduplicate_and_aggregate_news
    categories,   \* categorize_news_items' result: category name -> bucket
    dtask,        \* per category: the state of its deduplicate_category_items call
    all_deduplicated_items,  \* the merged stage output
    dcompleted,   \* the deduplication monitor's completed count
    \* ---- run_complete_pipeline (main.py) and newsletter assembly ----
    ppc,                   \* position of run_complete_pipeline
    accounts,              \* how many accounts authenticate_multiple_accounts returned
    fallback_to_keywords,  \* NewsletterConfig.fallback_to_keywords
    total_emails,          \* messages fetched from the accounts
    cursor,                \* loop index of the stage in progress
    attempt,               \* attempts made by the retry loop in progress
    news_emails,           \* messages classified as news so far
    item_count,            \* news items extracted so far
    deduplicated_items,    \* per deduplicated item: its fallback category
    newsletter_content,    \* what categorize_and_generate_newsletter returned
    invoked,               \* the stage functions this run has called
    oracle_calls,          \* the oracle calls made: stage, and whether gated
    result,                \* the dict the run returns
    \* ---- ProcessingMonitor.step_completed under concurrent callers ----
    lock,         \* ProcessingMonitor.lock: the thread holding it, 0 when free
    spc,          \* per thread: position inside step_completed
    loaded,       \* per thread: the value of self.completed it has read
    returned,     \* per thread: how many of its step_completed calls returned
    \* ---- main_handler and the background executor (main.py) ----
    verify_token, \* the environment's CLOUD_RUN_VERIFY_TOKEN ("" when unset)
    pending,      \* runs submitted to background_executor and not yet started
    executing,    \* the executor's single worker is inside run_complete_pipeline
    finished,     \* runs that have ended; their results stay in the futures
    responses,    \* the request and response of every call of main_handler
    \* ---- send_newsletter_email (newsletter/sender.py) ----
    wall_clock,   \* datetime.now(), in whole seconds
    files,        \* the working directory: timestamp of the file name -> content
    sends,        \* every call of send_newsletter_email and how it ended
    \* ---- single functions applied to a list of inputs ----
    given,        \* the inputs, in the order they are handed over
    made          \* the value returned for each input handled so far

limVars == <<now, ticks, requests, lpc, wake, grants>>
exVars == <<oracle, record, parallel, poolSize, epc, tstate, tresult, all_results,
            completed, output>>

ddVars == <<news_items, oracleMode, dpc, categories, dtask,
            all_deduplicated_items, dcompleted>>

plVars == <<ppc, accounts, fallback_to_keywords, total_emails, cursor, attempt, news_emails,
            item_count, deduplicated_items, newsletter_content, invoked,
            oracle_calls, result>>

monVars == <<lock, spc, loaded, returned>>

trigVars == <<verify_token, pending, executing, finished, responses>>

\* the groups outside the pipeline stages
sendVars == <<wall_clock, files, sends>>

fnVars == <<given, made>>

sideVars == <<monVars, trigVars, sendVars, fnVars>>

vars == <<limVars, exVars, ddVars, plVars, sideVars>>

\* the groups a limiter step / an extraction step / a deduplication step /
\* a step of the run leaves alone
limOthers == <<exVars, ddVars, plVars, sideVars>>
exOthers == <<ddVars, plVars, sideVars>>
ddOthers == <<plVars, sideVars>>
plOthers == <<limVars, exVars, ddVars, sideVars>>
monOthers == <<limVars, ddVars, plVars, trigVars, sendVars, fnVars>>
trigOthers == <<limVars, exVars, ddVars, plVars, monVars, sendVars, fnVars>>
sendOthers == <<limVars, exVars, ddVars, plVars, monVars, trigVars, fnVars>>
fnOthers == <<limVars, exVars, ddVars, plVars, monVars, trigVars, sendVars>>

----------------------------------------------------------------------------
(* Generic helpers *)

RECURSIVE SeqSum(_)
SeqSum(s) == IF s = <<>> THEN 0 ELSE Head(s) + SeqSum(Tail(s))

RECURSIVE Flatten(_)
Flatten(ss) == IF ss = <<>> THEN <<>> ELSE Head(ss) \o Flatten(Tail(ss))

Range(s) == {s[i] : i \in DOMAIN s}

Min(a, b) == IF a < b THEN a ELSE b
Max(a, b) == IF a > b THEN a ELSE b

----------------------------------------------------------------------------
(* GeminiRateLimiter *)

\* max_requests_per_minute given to the constructor (60 in production)
MaxRequests == 2
\* concurrent callers of wait_if_needed
NumCallers == 2
\* how many times the clock may advance in a run
MaxTicks == 3
\* length of the trailing window in seconds
WindowSeconds == 60
\* time.sleep(1) between two acquire attempts
RetrySleepSeconds == 1
\* the clock advances by a second, or by a second less than a window
ClockSteps == {RetrySleepSeconds, WindowSeconds - 1}

Callers == 1..NumCallers

\* a prune whose window is one second short
PruneShortWindow(reqs, t) == SelectSeq(reqs, LAMBDA ts : t - ts < WindowSeconds - 1)

\* a prune that never lets a timestamp go
PruneNothing(reqs, t) == reqs

\* _prune: keep the timestamps younger than the window
Prune(reqs, t) == SelectSeq(reqs, LAMBDA ts : t - ts < WindowSeconds)

\* a test that lets one request too many through
HasCapacityInclusive(reqs) == Len(reqs) <= MaxRequests

\* acquire's test after pruning
HasCapacity(reqs) == Len(reqs) < MaxRequests

LimiterInit ==
    /\ now = 0
    /\ ticks = 0
    /\ requests = <<>>
    /\ lpc = [c \in Callers |-> "idle"]
    /\ wake = [c \in Callers |-> 0]
    /\ grants = <<>>

\* a caller enters wait_if_needed (again, once an earlier call has returned)
CallWait(c) ==
    /\ lpc[c] \in {"idle", "granted"}
    /\ lpc' = [lpc EXCEPT ![c] = "try"]
    /\ UNCHANGED <<now, ticks, requests, wake, grants>>
    /\ UNCHANGED limOthers

\* acquire() under the lock: prune with one clock reading, append a second
\* clock reading (d seconds later) when there is capacity
Acquire(c) ==
    /\ lpc[c] = "try"
    /\ LET pruned == Prune(requests, now) IN
       IF HasCapacity(pruned)
       THEN \E d \in {0, RetrySleepSeconds} :
              /\ d > 0 => ticks < MaxTicks
              /\ now' = now + d
              /\ ticks' = IF d > 0 THEN ticks + 1 ELSE ticks
              /\ requests' = Append(pruned, now + d)
              /\ grants' = Append(grants, now + d)
              /\ lpc' = [lpc EXCEPT ![c] = "granted"]
              /\ UNCHANGED wake
       ELSE /\ requests' = pruned
            /\ lpc' = [lpc EXCEPT ![c] = "sleep"]
            /\ wake' = [wake EXCEPT ![c] = now + RetrySleepSeconds]
            /\ UNCHANGED <<now, ticks, grants>>
    /\ UNCHANGED limOthers

\* time.sleep(1) is over: back to the loop test
WakeUp(c) ==
    /\ lpc[c] = "sleep"
    /\ now >= wake[c]
    /\ lpc' = [lpc EXCEPT ![c] = "try"]
    /\ UNCHANGED <<now, ticks, requests, wake, grants>>
    /\ UNCHANGED limOthers

\* the wall clock advances
ClockTick ==
    /\ ticks < MaxTicks
    /\ \E d \in ClockSteps : now' = now + d
    /\ ticks' = ticks + 1
    /\ UNCHANGED <<requests, lpc, wake, grants>>
    /\ UNCHANGED limOthers

\* --- the limiter under a clock that never stops ---
\* Timestamps are kept relative to a clock reading that stays put: when d
\* seconds pass, every recorded timestamp and every wake-up time moves d
\* seconds into the past instead. A timestamp a full window old is expired
\* whatever its age, so ages stop at the window's length.

\* one caller more than the window has slots, each calling wait_if_needed once
WaitingCallers == 1..(MaxRequests + 1)

\* the clock advances by half a window at a time
HalfWindow == WindowSeconds \div 2

Older(stamps, d) == [i \in DOMAIN stamps |-> Max(stamps[i] - d, now - WindowSeconds)]

WaitersInit ==
    /\ now = 0
    /\ ticks = 0
    /\ requests = <<>>
    /\ lpc = [c \in WaitingCallers |-> "idle"]
    /\ wake = [c \in WaitingCallers |-> 0]
    /\ grants = <<>>

\* a pipeline task reaches its wait_if_needed call
CallOnce(c) ==
    /\ lpc[c] = "idle"
    /\ lpc' = [lpc EXCEPT ![c] = "try"]
    /\ UNCHANGED <<now, ticks, requests, wake, grants>>
    /\ UNCHANGED limOthers

\* time passes
TimePasses ==
    /\ requests' = Older(requests, HalfWindow)
    /\ grants' = Older(grants, HalfWindow)
    /\ wake' = [c \in DOMAIN wake |-> Max(wake[c] - HalfWindow, now)]
    /\ UNCHANGED <<now, ticks, lpc>>
    /\ UNCHANGED limOthers

WaitersNext ==
    \/ \E c \in WaitingCallers : CallOnce(c)
    \/ \E c \in WaitingCallers : Acquire(c)
    \/ \E c \in WaitingCallers : WakeUp(c)
    \/ TimePasses

\* time advances, and every thread inside wait_if_needed keeps running
WaitersFairness ==
    /\ WF_vars(TimePasses)
    /\ \A c \in WaitingCallers : WF_vars(Acquire(c)) /\ WF_vars(WakeUp(c))

LimiterNext ==
    \/ \E c \in Callers : CallWait(c)
    \/ \E c \in Callers : Acquire(c)
    \/ \E c \in Callers : WakeUp(c)
    \/ ClockTick


----------------------------------------------------------------------------
(* Extraction stage: extract_individual_news_items *)

\* news messages in one batch
MaxEmails == 3
\* items the oracle returns for one message
MaxItems == 1
\* the largest max_workers argument tried
MaxPool == 2
\* the default max_requests_per_minute of GLOBAL_GEMINI_RATE_LIMITER
GlobalMaxRequests == 60

\* what the oracle does for one message: raise, or return that many items
\* (0: an explicit empty list, or no result at all)
OracleOutcomes ==
    {[raises |-> TRUE, count |-> 0]} \cup {[raises |-> FALSE, count |-> k] : k \in 0..MaxItems}

RECURSIVE SeqsUpTo(_, _)
SeqsUpTo(S, n) ==
    IF n = 0 THEN {<<>>}
    ELSE LET shorter == SeqsUpTo(S, n - 1) IN
         shorter \cup {Append(q, x) : q \in {r \in shorter : Len(r) = n - 1}, x \in S}

Emails == DOMAIN oracle

\* the items prepared from a successful oracle result, stamped with provenance
PreparedItems(i) ==
    [j \in 1..oracle[i].count |-> [src |-> i, nth |-> j, kind |-> "extracted"]]

\* a failing message that contributes nothing
NoFallbackItems(i) == <<>>

\* the item synthesized from subject and body when the oracle call raised
FallbackItems(i) == << [src |-> i, nth |-> 1, kind |-> "fallback"] >>

\* record[i] tells the shape of the record a caller hands over: "text"
\* (subject and body are strings, as get_email_content builds them),
\* "body_none" (the body is not), "subject_none" (the subject is not)

\* lines 203-219, before the try: slicing the subject raises when the record
\* holds no subject text
RaisesBeforeTry(i) == record[i] = "subject_none"

\* lines 262-273: the oracle call raised and building the fallback item
\* raises on the body
FallbackRaises(i) == oracle[i].raises /\ record[i] = "body_none"

\* the call of _extract_single_email for message i ends in an exception
Escapes(i) == RaisesBeforeTry(i) \/ FallbackRaises(i)

\* the value _extract_single_email returns for message i
ExtractSingleEmail(i) ==
    IF oracle[i].raises THEN <<i, FallbackItems(i)>> ELSE <<i, PreparedItems(i)>>

\* sorted(all_results, key=entry[0]): a stable insertion sort
RECURSIVE InsertByIndex(_, _)
InsertByIndex(e, sorted) ==
    IF sorted = <<>> THEN <<e>>
    ELSE IF e[1] < Head(sorted)[1] THEN <<e>> \o sorted
    ELSE <<Head(sorted)>> \o InsertByIndex(e, Tail(sorted))

RECURSIVE SortByIndexFrom(_, _)
SortByIndexFrom(results, k) ==
    IF k = 0 THEN <<>>
    ELSE InsertByIndex(results[k], SortByIndexFrom(results, k - 1))

\* the merge without the sort: completion order
KeepCompletionOrder(results) == results

SortByIndex(results) == SortByIndexFrom(results, Len(results))

\* flatten the (index, items) pairs
MergeResults(results) == Flatten([k \in DOMAIN results |-> results[k][2]])

\* max_workers = max(1, min(max_workers, len(news_emails)))
EffectiveWorkers == Max(1, Min(poolSize, Len(oracle)))

Running == {i \in Emails : tstate[i] \in {"gate", "call"}}

ExtractInit ==
    /\ oracle \in SeqsUpTo(OracleOutcomes, MaxEmails)
    /\ record = [i \in DOMAIN oracle |-> "text"]
    /\ parallel \in BOOLEAN
    /\ poolSize \in 1..MaxPool
    /\ epc = "start"
    /\ tstate = [i \in DOMAIN oracle |-> "new"]
    /\ tresult = [i \in DOMAIN oracle |-> <<>>]
    /\ all_results = <<>>
    /\ completed = 0
    /\ output = <<>>

\* lines 331-372: the empty batch returns at once; otherwise every message is
\* submitted to the pool (or the sequential loop starts)
ExtractBegin ==
    /\ epc = "start"
    /\ IF Len(oracle) = 0
       THEN /\ epc' = "returned"
            /\ UNCHANGED tstate
       ELSE IF ~parallel
       THEN /\ epc' = "sequential"
            /\ UNCHANGED tstate
       ELSE /\ epc' = "collecting"
            /\ tstate' = [i \in Emails |-> "queued"]
    /\ UNCHANGED <<oracle, record, parallel, poolSize, tresult, all_results, completed, output>>
    /\ UNCHANGED limVars
    /\ UNCHANGED exOthers

\* a free worker takes the oldest queued task and runs it up to the try
\* (lines 203-219), where it can already end in an exception
StartTask(i) ==
    /\ epc = "collecting"
    /\ tstate[i] = "queued"
    /\ \A j \in Emails : j < i => tstate[j] # "queued"
    /\ Cardinality(Running) < EffectiveWorkers
    /\ tstate' = [tstate EXCEPT ![i] = IF RaisesBeforeTry(i) THEN "done" ELSE "gate"]
    /\ UNCHANGED <<oracle, record, parallel, poolSize, epc, tresult, all_results, completed, output>>
    /\ UNCHANGED limVars
    /\ UNCHANGED exOthers

\* line 222: GLOBAL_GEMINI_RATE_LIMITER.wait_if_needed() returns
ExtractGate(i) ==
    /\ tstate[i] = "gate"
    /\ Len(Prune(requests, now)) < GlobalMaxRequests
    /\ requests' = Append(Prune(requests, now), now)
    /\ tstate' = [tstate EXCEPT ![i] = "call"]
    /\ UNCHANGED <<now, ticks, lpc, wake, grants>>
    /\ UNCHANGED <<oracle, record, parallel, poolSize, epc, tresult, all_results, completed, output>>
    /\ UNCHANGED exOthers

\* lines 223-295: the oracle call, the items or the fallback item, and the
\* monitor step of the finally block
ExtractCall(i) ==
    /\ tstate[i] = "call"
    /\ tresult' = IF Escapes(i) THEN tresult
                  ELSE [tresult EXCEPT ![i] = ExtractSingleEmail(i)]
    /\ completed' = completed + 1
    /\ tstate' = [tstate EXCEPT ![i] = "done"]
    /\ UNCHANGED <<oracle, record, parallel, poolSize, epc, all_results, output>>
    /\ UNCHANGED limVars
    /\ UNCHANGED exOthers

\* lines 374-382: as_completed yields a finished future; its result is
\* appended, its exception is caught and logged
CollectResult(i) ==
    /\ epc = "collecting"
    /\ tstate[i] = "done"
    /\ all_results' = IF Escapes(i) THEN all_results
                      ELSE Append(all_results, tresult[i])
    /\ tstate' = [tstate EXCEPT ![i] = "collected"]
    /\ UNCHANGED <<oracle, record, parallel, poolSize, epc, tresult, completed, output>>
    /\ UNCHANGED limVars
    /\ UNCHANGED exOthers

\* lines 384-390: sort by original index, flatten, return
MergeAndReturn ==
    /\ epc = "collecting"
    /\ \A i \in Emails : tstate[i] = "collected"
    /\ output' = MergeResults(SortByIndex(all_results))
    /\ epc' = "returned"
    /\ UNCHANGED <<oracle, record, parallel, poolSize, tstate, tresult, all_results, completed>>
    /\ UNCHANGED limVars
    /\ UNCHANGED exOthers

\* a loop that puts each message's items in front of the list
SequentialPrepend(all_news_items, extracted_items) == extracted_items \o all_news_items

\* line 314: all_news_items.extend(extracted_items)
SequentialExtend(all_news_items, extracted_items) == all_news_items \o extracted_items

\* lines 309-318: one round of the sequential loop, for the first message not
\* yet processed; an exception of the call is caught and logged
SequentialStep(i) ==
    /\ epc = "sequential"
    /\ tstate[i] = "new"
    /\ \A j \in Emails : j < i => tstate[j] = "collected"
    /\ IF RaisesBeforeTry(i)
       THEN UNCHANGED <<requests, tresult, completed, output>>
       ELSE /\ Len(Prune(requests, now)) < GlobalMaxRequests
            /\ requests' = Append(Prune(requests, now), now)
            /\ completed' = completed + 1
            /\ IF Escapes(i)
               THEN UNCHANGED <<tresult, output>>
               ELSE /\ tresult' = [tresult EXCEPT ![i] = ExtractSingleEmail(i)]
                    /\ output' = SequentialExtend(output, ExtractSingleEmail(i)[2])
    /\ tstate' = [tstate EXCEPT ![i] = "collected"]
    /\ UNCHANGED <<now, ticks, lpc, wake, grants>>
    /\ UNCHANGED <<oracle, record, parallel, poolSize, epc, all_results>>
    /\ UNCHANGED exOthers

\* lines 320-321
SequentialReturn ==
    /\ epc = "sequential"
    /\ \A i \in Emails : tstate[i] = "collected"
    /\ epc' = "returned"
    /\ UNCHANGED <<oracle, record, parallel, poolSize, tstate, tresult, all_results, completed, output>>
    /\ UNCHANGED limVars
    /\ UNCHANGED exOthers

ExtractNext ==
    \/ ExtractBegin
    \/ \E i \in Emails : StartTask(i)
    \/ \E i \in Emails : ExtractGate(i)
    \/ \E i \in Emails : ExtractCall(i)
    \/ \E i \in Emails : CollectResult(i)
    \/ MergeAndReturn
    \/ \E i \in Emails : SequentialStep(i)
    \/ SequentialReturn

\* the extraction variables while another component runs
ExtractIdle ==
    /\ oracle = <<>>
    /\ record = <<>>
    /\ parallel = TRUE
    /\ poolSize = 1
    /\ epc = "idle"
    /\ tstate = <<>>
    /\ tresult = <<>>
    /\ all_results = <<>>
    /\ completed = 0
    /\ output = <<>>

----------------------------------------------------------------------------
(* Bucketing and deduplication: categorize_news_items,                     *)
(* deduplicate_category_items, deduplicate_and_aggregate_news              *)

\* items given to the stage
MaxNews == 2
\* items in the one bucket of the single-bucket specification
MaxBucket == 2
\* groups in one oracle response
MaxGroups == 2
\* ids in one group
MaxGroupLen == 2
\* retries = 3
DedupRetries == 3
\* MAX_DEDUPLICATION_WORKERS: min(MAX_EXTRACTION_WORKERS // 2, 3) with the
\* local default of 5 extraction workers
MaxDeduplicationWorkers == 2

CategoryNames ==
    <<"AI", "Economy", "Stocks", "Private Equity", "Politics", "Technology", "Other">>
CategorySet == Range(CategoryNames)

CategoryPos(c) == CHOOSE k \in DOMAIN CategoryNames : CategoryNames[k] = c

\* models_to_try[min(attempt, len(models_to_try) - 1)], attempt counted from 0
ModelsToTry == <<"flash", "flash-lite">>
\* a retry loop that stays with the first model
FirstModelAlways(a) == ModelsToTry[1]

ModelForAttempt(a) == ModelsToTry[Min(a, Len(ModelsToTry) - 1) + 1]

GroupTypes == {"duplicate", "similar", "unique"}

\* a test that takes any non-empty category name
HasSomePrimary(item) == item.primary # ""

\* "if email_category and email_category in categories"
HasValidPrimary(item) == item.primary # "" /\ item.primary \in CategorySet

\* the secondary placements of one item into bucket c, for the entries k.. of
\* its email_secondary_categories
RECURSIVE SecondaryPlacements(_, _, _, _)
SecondaryPlacements(item, idx, c, k) ==
    IF k > Len(item.secondary) THEN <<>>
    ELSE (IF item.secondary[k] = c /\ item.secondary[k] # item.primary
          THEN << [original_index |-> idx, is_secondary |-> TRUE] >>
          ELSE <<>>)
         \o SecondaryPlacements(item, idx, c, k + 1)

\* what one round of the loop of categorize_news_items appends to bucket c
PlacementsOf(item, idx, c) ==
    IF HasValidPrimary(item)
    THEN (IF c = item.primary
          THEN << [original_index |-> idx, is_secondary |-> FALSE] >>
          ELSE <<>>)
         \o SecondaryPlacements(item, idx, c, 1)
    ELSE IF c = "Other"
         THEN << [original_index |-> idx, is_secondary |-> FALSE] >>
         ELSE <<>>

\* a loop that writes original_index into the input item itself
InputStamped(items) ==
    [i \in DOMAIN items |->
        [primary |-> items[i].primary, secondary |-> items[i].secondary,
         original_index |-> i - 1]]

\* the input list after categorize_news_items: lines 41-63 write to the new
\* dicts categorized_item and secondary_item and to categories only
InputAfterCategorize(items) == items

\* categorize_news_items: original_index is the 0-based position
CategorizeNewsItems(items) ==
    [c \in CategorySet |->
        Flatten([i \in DOMAIN items |-> PlacementsOf(items[i], i - 1, c)])]

BucketIds(bucket) == {bucket[k].original_index : k \in DOMAIN bucket}

\* an item returned unchanged by the short-circuit for at most one item
RawItem(idx) ==
    [kind |-> "raw", group_type |-> "", original_count |-> 0,
     all_sources |-> <<>>, primary_source |-> idx, is_secondary |-> FALSE,
     has_original_index |-> FALSE, bucket |-> ""]

\* a consolidated item that counts itself once
ConsolidatedAsOne(c, g) ==
    [kind |-> "group", group_type |-> g.type, original_count |-> 1,
     all_sources |-> g.item_ids, primary_source |-> g.item_ids[1],
     is_secondary |-> FALSE, has_original_index |-> FALSE, bucket |-> c]

\* a copy of a bucket item from which original_index is not deleted
SingletonKeepingIndex(c, p) ==
    [kind |-> "single", group_type |-> "unique", original_count |-> 1,
     all_sources |-> <<p.original_index>>, primary_source |-> p.original_index,
     is_secondary |-> p.is_secondary, has_original_index |-> TRUE, bucket |-> c]

\* the copy of a bucket item emitted on its own (lines 233-250, 260-277)
SingletonOf(c, p) ==
    [kind |-> "single", group_type |-> "unique", original_count |-> 1,
     all_sources |-> <<p.original_index>>, primary_source |-> p.original_index,
     is_secondary |-> p.is_secondary, has_original_index |-> FALSE, bucket |-> c]

\* the consolidated item of an accepted group (lines 196-229)
ConsolidatedOf(c, g) ==
    [kind |-> "group", group_type |-> g.type, original_count |-> Len(g.item_ids),
     all_sources |-> g.item_ids, primary_source |-> g.item_ids[1],
     is_secondary |-> FALSE, has_original_index |-> FALSE, bucket |-> c]

\* a failure path that loses the bucket
NoSingletons(c, bucket) == <<>>

\* lines 258-279: every item of the bucket on its own
FallbackSingletons(c, bucket) == [k \in DOMAIN bucket |-> SingletonOf(c, bucket[k])]

\* a second loop that forgets which ids the groups claimed
EveryItemAgain(c, bucket, processed) == [k \in DOMAIN bucket |-> SingletonOf(c, bucket[k])]

\* lines 231-250: the items no accepted group claimed, each on its own
UnclaimedSingletons(c, bucket, processed) ==
    LET left == SelectSeq(bucket, LAMBDA p : p.original_index \notin processed)
    IN [k \in DOMAIN left |-> SingletonOf(c, left[k])]

\* a test that lets every group through
NeverOverlaps(g, processed) == FALSE

\* line 191: the group names an id an earlier accepted group claimed
GroupOverlaps(g, processed) == \E n \in DOMAIN g.item_ids : g.item_ids[n] \in processed

\* lines 202-204 and 221: next() finds no item for an id, or the group is
\* empty and original_items[0] does not exist
GroupRaises(g, bucket) ==
    \/ \E n \in DOMAIN g.item_ids : g.item_ids[n] \notin BucketIds(bucket)
    \/ g.item_ids = <<>>

\* the group the oracle's list can hold next for a bucket. Any oracle: any
\* list of ids of the bucket or of one id outside it. A well-formed oracle:
\* groups are disjoint, name ids of the bucket in ascending order without
\* repeats, come in ascending order, and one id alone is typed unique
StrayId(bucket) == Len(news_items)

Ascending(ids) == \A m, n \in DOMAIN ids : m < n => ids[m] < ids[n]

TypeFits(type, ids) == (type = "unique") <=> (Len(ids) = 1)

WellFormedNext(g, processed) ==
    /\ g.item_ids # <<>>
    /\ Ascending(g.item_ids)
    /\ \A p \in processed : p < g.item_ids[1]
    /\ TypeFits(g.type, g.item_ids)

GroupChoices(bucket, processed) ==
    IF oracleMode = "any"
    THEN [type : GroupTypes,
          item_ids : SeqsUpTo(BucketIds(bucket) \cup {StrayId(bucket)}, MaxGroupLen)]
    ELSE {g \in [type : GroupTypes,
                 item_ids : SeqsUpTo(BucketIds(bucket) \ processed, MaxGroupLen)] :
             WellFormedNext(g, processed)}

NonEmptyCategories == {c \in CategorySet : categories[c] # <<>>}

IdleTask ==
    [state |-> "none", attempt |-> 0, calls |-> <<>>, failed |-> FALSE,
     seen |-> 0, processed |-> {}, items |-> <<>>]

\* deduplicate_category_items returns: its locals are gone, its result stays
Returned(c, items, failed) ==
    [IdleTask EXCEPT !.state = "done", !.items = items, !.failed = failed]

\* the loop over the groups reads and writes only locals of its task, so its
\* rounds commute with every step of another task: they are taken together,
\* no other task stepping in between
NoOtherInGroupLoop(c) == \A b \in CategorySet \ {c} : dtask[b].state # "groups"

DedupRunning == {c \in CategorySet : dtask[c].state \in {"call", "groups"}}

\* max_workers = max(1, min(MAX_DEDUPLICATION_WORKERS, len(non_empty_categories)));
\* the sequential path handles one category at a time
EffectiveDedupWorkers ==
    IF parallel THEN Max(1, Min(MaxDeduplicationWorkers, Cardinality(NonEmptyCategories))) ELSE 1

ItemKinds ==
    { [primary |-> "AI", secondary |-> <<>>],
      [primary |-> "", secondary |-> <<>>],
      [primary |-> "AI", secondary |-> <<"Stocks", "AI">>],
      [primary |-> "Gossip", secondary |-> <<"AI">>] }

DedupVarsInit ==
    /\ dpc = "start"
    /\ categories = [c \in CategorySet |-> <<>>]
    /\ dtask = [c \in CategorySet |-> IdleTask]
    /\ all_deduplicated_items = <<>>
    /\ dcompleted = 0

\* the stage on any short list of classified items, the oracle well formed
DedupInit ==
    /\ news_items \in SeqsUpTo(ItemKinds, MaxNews)
    /\ oracleMode = "wellformed"
    /\ DedupVarsInit

\* the stage on items of one category, the oracle returning any group list
BucketInit ==
    /\ news_items \in {[i \in 1..n |-> [primary |-> "AI", secondary |-> <<>>]] : n \in 2..MaxBucket}
    /\ oracleMode = "any"
    /\ DedupVarsInit

\* lines 287-336: the short-circuit, bucketing, and one task per non-empty bucket
DedupBegin ==
    /\ dpc = "start"
    /\ IF Len(news_items) <= 1
       THEN /\ all_deduplicated_items' = [i \in DOMAIN news_items |-> RawItem(i - 1)]
            /\ dpc' = "returned"
            /\ UNCHANGED <<news_items, categories, dtask>>
       ELSE /\ categories' = CategorizeNewsItems(news_items)
            /\ dtask' = [c \in CategorySet |->
                           IF CategorizeNewsItems(news_items)[c] # <<>>
                           THEN [IdleTask EXCEPT !.state = "queued"]
                           ELSE IdleTask]
            /\ news_items' = InputAfterCategorize(news_items)
            /\ dpc' = "running"
            /\ UNCHANGED all_deduplicated_items
    /\ UNCHANGED <<oracleMode, dcompleted>>
    /\ UNCHANGED <<limVars, parallel>>
    /\ UNCHANGED <<oracle, record, poolSize, epc, tstate, tresult, all_results, completed, output>>
    /\ UNCHANGED ddOthers

\* a free worker takes the next category, in the order of the dict; the
\* sequential loop takes it once the one before is finished and merged
DedupStart(c) ==
    /\ dpc = "running"
    /\ dtask[c].state = "queued"
    /\ NoOtherInGroupLoop(c)
    /\ \A b \in CategorySet : CategoryPos(b) < CategoryPos(c) => dtask[b].state # "queued"
    /\ Cardinality(DedupRunning) < EffectiveDedupWorkers
    /\ ~parallel => \A b \in CategorySet : dtask[b].state \in {"none", "queued", "collected"}
    /\ dtask' = [dtask EXCEPT ![c].state = "call"]
    /\ UNCHANGED <<news_items, oracleMode, dpc, categories,
                   all_deduplicated_items, dcompleted>>
    /\ UNCHANGED <<limVars, exVars>>
    /\ UNCHANGED ddOthers

\* lines 135-183: one attempt. wait_if_needed returns, then the oracle call
\* raises, returns no group list, or returns groups; a failed attempt is
\* retried, the last failure is raised and caught at line 254
DedupCall(c) ==
    /\ dtask[c].state = "call"
    /\ NoOtherInGroupLoop(c)
    /\ Len(Prune(requests, now)) < GlobalMaxRequests
    /\ requests' = Append(Prune(requests, now), now)
    /\ \E outcome \in {"raise", "null", "groups"} :
         LET called == [dtask[c] EXCEPT
                          !.calls = Append(@, ModelForAttempt(dtask[c].attempt))]
         IN IF outcome = "groups"
            THEN dtask' = [dtask EXCEPT ![c] = [called EXCEPT !.state = "groups"]]
            ELSE IF dtask[c].attempt < DedupRetries - 1
            THEN dtask' = [dtask EXCEPT ![c] =
                             [called EXCEPT !.attempt = @ + 1]]
            ELSE dtask' = [dtask EXCEPT ![c] =
                             [Returned(c, FallbackSingletons(c, categories[c]), TRUE)
                                 EXCEPT !.calls = called.calls]]
    /\ UNCHANGED <<now, ticks, lpc, wake, grants>>
    /\ UNCHANGED <<news_items, oracleMode, dpc, categories,
                   all_deduplicated_items, dcompleted>>
    /\ UNCHANGED exVars
    /\ UNCHANGED ddOthers

\* lines 188-229: one round of the loop over result.groups
DedupGroup(c) ==
    /\ dtask[c].state = "groups"
    /\ NoOtherInGroupLoop(c)
    /\ dtask[c].seen < MaxGroups
    /\ \E g \in GroupChoices(categories[c], dtask[c].processed) :
         LET t == [dtask[c] EXCEPT !.seen = @ + 1]
         IN IF GroupOverlaps(g, t.processed)
            THEN dtask' = [dtask EXCEPT ![c] = t]
            ELSE IF GroupRaises(g, categories[c])
            THEN dtask' = [dtask EXCEPT ![c] =
                             Returned(c, FallbackSingletons(c, categories[c]), FALSE)]
            ELSE dtask' = [dtask EXCEPT ![c] =
                             [t EXCEPT !.processed = @ \cup Range(g.item_ids),
                                       !.items = Append(@, ConsolidatedOf(c, g))]]
    /\ UNCHANGED <<news_items, oracleMode, dpc, categories,
                   all_deduplicated_items, dcompleted>>
    /\ UNCHANGED <<limVars, exVars>>
    /\ UNCHANGED ddOthers

\* lines 231-252: the groups are exhausted; the unclaimed items follow
DedupFinish(c) ==
    /\ dtask[c].state = "groups"
    /\ NoOtherInGroupLoop(c)
    /\ dtask' = [dtask EXCEPT ![c] =
                    Returned(c, dtask[c].items \o UnclaimedSingletons(c, categories[c],
                                                                      dtask[c].processed),
                             FALSE)]
    /\ UNCHANGED <<news_items, oracleMode, dpc, categories,
                   all_deduplicated_items, dcompleted>>
    /\ UNCHANGED <<limVars, exVars>>
    /\ UNCHANGED ddOthers

\* lines 338-349 (306 on the sequential path): the result joins the output
DedupCollect(c) ==
    /\ dpc = "running"
    /\ dtask[c].state = "done"
    /\ NoOtherInGroupLoop(c)
    /\ all_deduplicated_items' = all_deduplicated_items \o dtask[c].items
    /\ dcompleted' = IF parallel THEN dcompleted + 1 ELSE dcompleted
    /\ dtask' = [dtask EXCEPT ![c].state = "collected"]
    /\ UNCHANGED <<news_items, oracleMode, dpc, categories>>
    /\ UNCHANGED <<limVars, exVars>>
    /\ UNCHANGED ddOthers

\* lines 351-355 (308-311)
DedupReturn ==
    /\ dpc = "running"
    /\ \A c \in NonEmptyCategories : dtask[c].state = "collected"
    /\ dpc' = "returned"
    /\ UNCHANGED <<news_items, oracleMode, categories, dtask,
                   all_deduplicated_items, dcompleted>>
    /\ UNCHANGED <<limVars, exVars>>
    /\ UNCHANGED ddOthers

DedupNext ==
    \/ DedupBegin
    \/ \E c \in CategorySet : DedupStart(c)
    \/ \E c \in CategorySet : DedupCall(c)
    \/ \E c \in CategorySet : DedupGroup(c)
    \/ \E c \in CategorySet : DedupFinish(c)
    \/ \E c \in CategorySet : DedupCollect(c)
    \/ DedupReturn

\* the deduplication variables while another component runs
DedupIdle ==
    /\ news_items = <<>>
    /\ oracleMode = "wellformed"
    /\ dpc = "idle"
    /\ categories = [c \in CategorySet |-> <<>>]
    /\ dtask = [c \in CategorySet |-> IdleTask]
    /\ all_deduplicated_items = <<>>
    /\ dcompleted = 0

----------------------------------------------------------------------------
(* The run: run_complete_pipeline, run_news_classification, is_news_related *)
(* and the newsletter assembly of categorization.py and fallback.py. The   *)
(* extraction and deduplication stages appear here by what they hand back  *)
(* to the run: how many items, and which oracle calls they made.           *)

\* messages the accounts hold
MaxInbox == 2
\* categories in one NewsletterStructure the assembly oracle returns
MaxCategories == 1
\* ids in one subcategory's item_ids
MaxItemIds == 1
\* retries = 3 in is_news_related
ClassificationRetries == 3
\* @retry(max_attempts=3, ...) on categorize_with_gemini
AssemblyMaxAttempts == 3
\* NewsletterConfig.max_items_per_category
MaxItemsPerCategory == 10

\* the bucket lines 37-58 of create_fallback_newsletter put an item into: its
\* email_primary_category, a keyword match, or "Other"
ItemLabels == {"AI", "Other"}

\* the keys of `categories` in create_fallback_newsletter, in dict order
FallbackCategories ==
    <<"AI", "Economy", "Stocks", "Private Equity", "Politics", "Technology", "Other">>

\* s[:], nothing cut
TakeAll(s, n) == s

\* s[:n]
Take(s, n) == SubSeq(s, 1, Min(Len(s), n))

\* the positions 0 .. n-1 of a list
Indices(items) == [i \in 1..Len(items) |-> i - 1]

\* deduplicated_items[item_id]: a negative index counts from the end
ListIndex(item_id, n) == IF item_id >= 0 THEN item_id ELSE n + item_id

\* lines 238-246: the items of one subcategory, for the ids k.. of the
\* truncated id list
RECURSIVE ResolveIds(_, _, _)
ResolveIds(ids, n, k) ==
    IF k > Len(ids) THEN <<>>
    ELSE (IF ids[k] < n THEN << ListIndex(ids[k], n) >> ELSE <<>>)
         \o ResolveIds(ids, n, k + 1)

\* deduplicated_items[item_id] raises IndexError below -len
IdRaises(item_id, n) == item_id < -n

\* lines 224-260: the dict built from the oracle's NewsletterStructure
BuildFromStructure(structure, items) ==
    [built_by |-> "oracle",
     categories |->
        [i \in DOMAIN structure.categories |->
            [name |-> structure.categories[i].category_name,
             subcategories |->
                [j \in DOMAIN structure.categories[i].subcategories |->
                    [items |-> ResolveIds(
                        Take(structure.categories[i].subcategories[j].item_ids,
                             MaxItemsPerCategory),
                        Len(items), 1)]]]]]

\* the loop of lines 234-246 meets an id below -len
BuildRaises(structure, items) ==
    \E i \in DOMAIN structure.categories :
        \E j \in DOMAIN structure.categories[i].subcategories :
            \E k \in DOMAIN Take(structure.categories[i].subcategories[j].item_ids,
                                 MaxItemsPerCategory) :
                IdRaises(structure.categories[i].subcategories[j].item_ids[k], Len(items))

\* a fallback that drops every item
EmptyNewsletter(items) == [built_by |-> "fallback", categories |-> <<>>]

\* create_fallback_newsletter without lines 72-73: a category for every
\* bucket, empty ones too
KeepEmptyCategories(items) ==
    [built_by |-> "fallback",
     categories |->
        [c \in DOMAIN FallbackCategories |->
            [name |-> FallbackCategories[c],
             subcategories |->
                << [items |-> SelectSeq(Indices(items),
                                        LAMBDA x : items[x + 1] = FallbackCategories[c])] >>]]]

\* create_fallback_newsletter: one category per non-empty bucket, in dict
\* order, holding one subcategory with the bucket's items
CreateFallbackNewsletter(items) ==
    [built_by |-> "fallback",
     categories |->
        Flatten([c \in DOMAIN FallbackCategories |->
            LET members == SelectSeq(Indices(items),
                                     LAMBDA x : items[x + 1] = FallbackCategories[c])
            IN IF members = <<>> THEN <<>>
               ELSE << [name |-> FallbackCategories[c],
                        subcategories |-> << [items |-> members] >>] >>])]

\* validate_newsletter_structure: the keys are present
ValidateNewsletterStructure(content) ==
    /\ "categories" \in DOMAIN content
    /\ \A i \in DOMAIN content.categories :
          /\ "name" \in DOMAIN content.categories[i]
          /\ "subcategories" \in DOMAIN content.categories[i]
          /\ \A j \in DOMAIN content.categories[i].subcategories :
                "items" \in DOMAIN content.categories[i].subcategories[j]

\* the NewsletterStructure values the assembly oracle is taken to return for
\* n items: ids that are negative, valid, or past the end
ItemIdChoices(n) == {-1, 0, n}

SubcategoryChoices(n) ==
    {[item_ids |-> ids] : ids \in SeqsUpTo(ItemIdChoices(n), MaxItemIds)}

CategoryChoices(n) ==
    {[category_name |-> "AI", subcategories |-> ss] :
        ss \in {<<>>} \cup {<<sc>> : sc \in SubcategoryChoices(n)}}

StructureChoices(n) ==
    {[categories |-> cs] : cs \in SeqsUpTo(CategoryChoices(n), MaxCategories)}

NoContent == [built_by |-> "none", categories |-> <<>>]

NoResult ==
    [success |-> FALSE, note |-> "running", total_emails |-> 0, news_emails |-> 0,
     email_sent |-> FALSE]

\* a failure that says nothing
UnexplainedFailure(error) == [NoResult EXCEPT !.note = ""]

\* {"success": False, "error": ...}
FailureResult(error) == [NoResult EXCEPT !.note = error]

\* a run that reports the empty day as a failure
NoNewsFailure(total) ==
    [NoResult EXCEPT !.note = "No news content found", !.total_emails = total]

\* main.py lines 69-73
NoNewsResult(total) ==
    [NoResult EXCEPT !.success = TRUE, !.note = "No news content found",
                     !.total_emails = total, !.news_emails = 0]

OracleCall(stage, gated) == [stage |-> stage, gated |-> gated]

\* what call_gemini_sdk hands back to is_news_related when it does not raise:
\* a verdict, or for a response that does not parse into
\* NewsClassificationResult the raw data (_coerce_to_schema returns the dict,
\* llm.py lines 30-40; resp.candidates, line 144)
Answers == {"news", "not_news", "no_verdict"}

PipelineVarsInit ==
    /\ accounts = 0
    /\ total_emails = 0
    /\ cursor = 0
    /\ attempt = 0
    /\ news_emails = 0
    /\ item_count = 0
    /\ deduplicated_items = <<>>
    /\ newsletter_content = NoContent
    /\ invoked = {}
    /\ oracle_calls = {}
    /\ result = NoResult

PipelineInit ==
    /\ ppc = "start"
    /\ fallback_to_keywords \in BOOLEAN
    /\ PipelineVarsInit

\* the run's variables while another component runs
PipelineIdle ==
    /\ ppc = "idle"
    /\ fallback_to_keywords = TRUE
    /\ PipelineVarsInit

\* a run that goes on without an account
AuthenticateAnyway ==
    /\ ppc = "start"
    /\ accounts' = 0
    /\ ppc' = "fetch"
    /\ UNCHANGED <<fallback_to_keywords, total_emails, cursor, attempt, news_emails,
                   item_count, deduplicated_items, newsletter_content, invoked,
                   oracle_calls, result>>
    /\ UNCHANGED plOthers

\* main.py lines 59-62: authenticate_multiple_accounts
Authenticate ==
    /\ ppc = "start"
    /\ \E n \in {0, 1} :
         /\ accounts' = n
         /\ IF n > 0
            THEN ppc' = "fetch" /\ UNCHANGED result
            ELSE ppc' = "done" /\ result' = FailureResult("Authentication failed")
    /\ UNCHANGED <<fallback_to_keywords, total_emails, cursor, attempt, news_emails,
                   item_count, deduplicated_items, newsletter_content, invoked,
                   oracle_calls>>
    /\ UNCHANGED plOthers

\* run_news_classification lines 407-421: the messages of the last day
FetchEmails ==
    /\ ppc = "fetch"
    /\ \E n \in 0..MaxInbox : total_emails' = n
    /\ cursor' = 0
    /\ ppc' = "classify"
    /\ UNCHANGED <<accounts, fallback_to_keywords, attempt, news_emails, item_count,
                   deduplicated_items, newsletter_content, invoked, oracle_calls,
                   result>>
    /\ UNCHANGED plOthers

\* process_email_for_news: get_email_content returned nothing
ClassifySkip ==
    /\ ppc = "classify"
    /\ cursor < total_emails
    /\ attempt = 0
    /\ cursor' = cursor + 1
    /\ UNCHANGED <<ppc, accounts, fallback_to_keywords, total_emails, attempt, news_emails,
                   item_count, deduplicated_items, newsletter_content, invoked,
                   oracle_calls, result>>
    /\ UNCHANGED plOthers

\* is_news_related lines 318-352: one attempt; call_gemini_sdk is called
\* directly. The last failure returns "not news"; a returned value that is no
\* verdict raises at line 373 and ends the run in the except of main.py
\* lines 174-177
ClassifyAttempt ==
    /\ ppc = "classify"
    /\ cursor < total_emails
    /\ oracle_calls' = oracle_calls \cup {OracleCall("classification", FALSE)}
    /\ \E outcome \in {"raise"} \cup Answers :
         IF outcome = "no_verdict"
         THEN /\ ppc' = "done"
              /\ result' = FailureResult("Pipeline failed with error")
              /\ UNCHANGED <<attempt, cursor, news_emails>>
         ELSE IF outcome = "raise" /\ attempt < ClassificationRetries - 1
         THEN /\ attempt' = attempt + 1
              /\ UNCHANGED <<ppc, result, cursor, news_emails>>
         ELSE /\ attempt' = 0
              /\ cursor' = cursor + 1
              /\ news_emails' = IF outcome = "news" THEN news_emails + 1 ELSE news_emails
              /\ UNCHANGED <<ppc, result>>
    /\ UNCHANGED <<accounts, fallback_to_keywords, total_emails, item_count,
                   deduplicated_items, newsletter_content, invoked>>
    /\ UNCHANGED plOthers

\* main.py lines 65-73: the classification is over
ClassificationReturn ==
    /\ ppc = "classify"
    /\ cursor = total_emails
    /\ IF news_emails = 0
       THEN ppc' = "done" /\ result' = NoNewsResult(total_emails)
       ELSE ppc' = "extract" /\ UNCHANGED result
    /\ cursor' = 0
    /\ UNCHANGED <<accounts, fallback_to_keywords, total_emails, attempt, news_emails,
                   item_count, deduplicated_items, newsletter_content, invoked,
                   oracle_calls>>
    /\ UNCHANGED plOthers

\* extract_individual_news_items, one message: wait_if_needed, then the oracle
\* call; the message yields no item or one (extracted, or the fallback item)
ExtractEmailStep ==
    /\ ppc = "extract"
    /\ cursor < news_emails
    /\ invoked' = invoked \cup {"extraction"}
    /\ oracle_calls' = oracle_calls \cup {OracleCall("extraction", TRUE)}
    /\ \E k \in {0, 1} : item_count' = item_count + k
    /\ cursor' = cursor + 1
    /\ UNCHANGED <<ppc, accounts, fallback_to_keywords, total_emails, attempt, news_emails,
                   deduplicated_items, newsletter_content, result>>
    /\ UNCHANGED plOthers

\* main.py lines 98-114
ExtractionReturn ==
    /\ ppc = "extract"
    /\ cursor = news_emails
    /\ IF item_count = 0
       THEN /\ ppc' = "done"
            /\ result' = [NoResult EXCEPT !.success = TRUE,
                                          !.note = "No extractable news content",
                                          !.total_emails = total_emails,
                                          !.news_emails = news_emails]
       ELSE ppc' = "dedup" /\ UNCHANGED result
    /\ UNCHANGED <<accounts, fallback_to_keywords, total_emails, cursor, attempt, news_emails,
                   item_count, deduplicated_items, newsletter_content, invoked,
                   oracle_calls>>
    /\ UNCHANGED plOthers

\* main.py lines 117-123: deduplicate_and_aggregate_news hands back at least
\* one item and at most as many as it was given; it calls the oracle, gated,
\* when it was given more than one
DeduplicateStep ==
    /\ ppc = "dedup"
    /\ invoked' = invoked \cup {"deduplication"}
    /\ oracle_calls' = IF item_count > 1
                       THEN oracle_calls \cup {OracleCall("deduplication", TRUE)}
                       ELSE oracle_calls
    /\ \E items \in SeqsUpTo(ItemLabels, item_count) :
         /\ Len(items) >= 1
         /\ item_count <= 1 => Len(items) = item_count
         /\ deduplicated_items' = items
    /\ attempt' = 0
    /\ ppc' = "assemble"
    /\ UNCHANGED <<accounts, fallback_to_keywords, total_emails, cursor, news_emails,
                   item_count, newsletter_content, result>>
    /\ UNCHANGED plOthers

\* categorize_and_generate_newsletter from line 269 on: validation, then the
\* content goes back to the run, or NewsletterGenerationError ends the run
\* (main.py lines 130-135)
FinishAssembly(content) ==
    IF ValidateNewsletterStructure(content)
    THEN /\ newsletter_content' = content
         /\ ppc' = "render"
         /\ UNCHANGED result
    ELSE /\ ppc' = "done"
         /\ result' = FailureResult("Newsletter generation failed")
         /\ UNCHANGED newsletter_content

\* one attempt of categorize_with_gemini under the retry wrapper (lines 55-79,
\* 92): call_gemini_sdk is called directly. The last failure reaches line 197
AssembleAttempt ==
    /\ ppc = "assemble"
    /\ invoked' = invoked \cup {"assembly"}
    /\ oracle_calls' = oracle_calls \cup {OracleCall("assembly", FALSE)}
    /\ \/ /\ attempt + 1 < AssemblyMaxAttempts
          /\ attempt' = attempt + 1
          /\ UNCHANGED <<ppc, newsletter_content, result>>
       \/ /\ attempt + 1 >= AssemblyMaxAttempts
          /\ attempt' = attempt + 1
          /\ IF fallback_to_keywords
             THEN FinishAssembly(CreateFallbackNewsletter(deduplicated_items))
             ELSE /\ ppc' = "done"
                  /\ result' = FailureResult("Newsletter generation failed")
                  /\ UNCHANGED newsletter_content
       \/ /\ UNCHANGED attempt
          /\ \E structure \in StructureChoices(Len(deduplicated_items)) :
               IF BuildRaises(structure, deduplicated_items)
               THEN /\ ppc' = "done"
                    /\ result' = FailureResult("Newsletter generation failed")
                    /\ UNCHANGED newsletter_content
               ELSE FinishAssembly(BuildFromStructure(structure, deduplicated_items))
    /\ UNCHANGED <<accounts, fallback_to_keywords, total_emails, cursor, news_emails,
                   item_count, deduplicated_items>>
    /\ UNCHANGED plOthers

\* main.py lines 138-145: generate_html_newsletter
RenderStep ==
    /\ ppc = "render"
    /\ invoked' = invoked \cup {"render"}
    /\ \E raised \in BOOLEAN :
         IF raised
         THEN ppc' = "done" /\ result' = FailureResult("HTML generation failed")
         ELSE ppc' = "send" /\ UNCHANGED result
    /\ UNCHANGED <<accounts, fallback_to_keywords, total_emails, cursor, attempt, news_emails,
                   item_count, deduplicated_items, newsletter_content, oracle_calls>>
    /\ UNCHANGED plOthers

\* main.py lines 148-172 and send_newsletter_email: sent; not sent and the
\* HTML written to newsletter_<timestamp>.html; or that write raises
SendStep ==
    /\ ppc = "send"
    /\ \E outcome \in {"sent", "saved", "raise"} :
         /\ invoked' = invoked \cup {"send"}
                           \cup (IF outcome = "saved" THEN {"save_html"} ELSE {})
         /\ IF outcome = "raise"
            THEN result' = FailureResult("Email delivery failed")
            ELSE result' = [NoResult EXCEPT !.success = TRUE,
                                            !.note = "completed",
                                            !.total_emails = total_emails,
                                            !.news_emails = news_emails,
                                            !.email_sent = (outcome = "sent")]
    /\ ppc' = "done"
    /\ UNCHANGED <<accounts, fallback_to_keywords, total_emails, cursor, attempt, news_emails,
                   item_count, deduplicated_items, newsletter_content, oracle_calls>>
    /\ UNCHANGED plOthers

PipelineNext ==
    \/ Authenticate
    \/ FetchEmails
    \/ ClassifySkip
    \/ ClassifyAttempt
    \/ ClassificationReturn
    \/ ExtractEmailStep
    \/ ExtractionReturn
    \/ DeduplicateStep
    \/ AssembleAttempt
    \/ RenderStep
    \/ SendStep

----------------------------------------------------------------------------
(* One run end to end: three news messages classified AI, AI, Stocks go    *)
(* through extraction, deduplication and assembly (main.py lines 96-128).  *)

\* classification.primary_category of the three messages
ScenarioCategories == <<"AI", "AI", "Stocks">>

\* the extraction oracle returns one item for every message
ScenarioInit ==
    /\ oracle = [i \in DOMAIN ScenarioCategories |-> [raises |-> FALSE, count |-> 1]]
    /\ record = [i \in DOMAIN ScenarioCategories |-> "text"]
    /\ parallel \in BOOLEAN
    /\ poolSize \in 1..MaxPool
    /\ epc = "start"
    /\ tstate = [i \in DOMAIN ScenarioCategories |-> "new"]
    /\ tresult = [i \in DOMAIN ScenarioCategories |-> <<>>]
    /\ all_results = <<>>
    /\ completed = 0
    /\ output = <<>>

\* lines 248-256 of news_extraction.py: every extracted item carries the
\* classification of its message
ClassifiedItems(items) ==
    [k \in DOMAIN items |->
        [primary |-> ScenarioCategories[items[k].src], secondary |-> <<>>]]

\* main.py lines 98-118: the extracted items go to deduplicate_and_aggregate_news
HandToDeduplication ==
    /\ epc = "returned"
    /\ dpc = "idle"
    /\ output # <<>>
    /\ news_items' = ClassifiedItems(output)
    /\ dpc' = "start"
    /\ UNCHANGED <<oracleMode, categories, dtask, all_deduplicated_items, dcompleted>>
    /\ UNCHANGED <<limVars, exVars, plVars, sideVars>>

\* an assembly oracle that puts every item under the category it was
\* deduplicated in: one category per name in use, one subcategory each
PlacingStructure(items) ==
    [categories |->
        Flatten([k \in DOMAIN CategoryNames |->
            LET ids == SelectSeq(Indices(items),
                                 LAMBDA x : items[x + 1].bucket = CategoryNames[k])
            IN IF ids = <<>> THEN <<>>
               ELSE << [category_name |-> CategoryNames[k],
                        subcategories |-> << [item_ids |-> ids] >>] >>])]

\* main.py lines 118-129: the deduplicated items go to
\* categorize_and_generate_newsletter, whose oracle call succeeds
HandToAssembly ==
    /\ dpc = "returned"
    /\ ppc = "idle"
    /\ deduplicated_items' =
          [k \in DOMAIN all_deduplicated_items |-> all_deduplicated_items[k].bucket]
    /\ newsletter_content' =
          BuildFromStructure(PlacingStructure(all_deduplicated_items),
                             all_deduplicated_items)
    /\ invoked' = invoked \cup {"extraction", "deduplication", "assembly"}
    /\ ppc' = "render"
    /\ UNCHANGED <<accounts, fallback_to_keywords, total_emails, cursor, attempt, news_emails,
                   item_count, oracle_calls, result>>
    /\ UNCHANGED plOthers

ScenarioNext ==
    \/ ExtractBegin
    \/ \E i \in Emails : StartTask(i)
    \/ \E i \in Emails : ExtractGate(i)
    \/ \E i \in Emails : ExtractCall(i)
    \/ \E i \in Emails : CollectResult(i)
    \/ MergeAndReturn
    \/ \E i \in Emails : SequentialStep(i)
    \/ SequentialReturn
    \/ HandToDeduplication
    \/ DedupBegin
    \/ \E c \in CategorySet : DedupStart(c)
    \/ \E c \in CategorySet : DedupCall(c)
    \/ \E c \in CategorySet : DedupGroup(c)
    \/ \E c \in CategorySet : DedupFinish(c)
    \/ \E c \in CategorySet : DedupCollect(c)
    \/ DedupReturn
    \/ HandToAssembly

----------------------------------------------------------------------------
(* ProcessingMonitor.step_completed called from several threads *)

\* threads that call step_completed
NumWorkers == 3
\* calls each thread makes
CallsPerWorker == 2

Workers == 1..NumWorkers

\* a lock that excludes nobody
LockAlwaysFree == TRUE

\* threading.Lock: free when no thread holds it
LockFree == lock = 0

MonitorInit ==
    /\ lock = 0
    /\ spc = [w \in Workers |-> "out"]
    /\ loaded = [w \in Workers |-> 0]
    /\ returned = [w \in Workers |-> 0]

\* a thread calls step_completed
StepCall(w) ==
    /\ spc[w] = "out"
    /\ returned[w] < CallsPerWorker
    /\ spc' = [spc EXCEPT ![w] = "enter"]
    /\ UNCHANGED <<lock, loaded, returned>>
    /\ UNCHANGED <<oracle, record, parallel, poolSize, epc, tstate, tresult, all_results, completed, output>>
    /\ UNCHANGED monOthers

\* line 87: with self.lock
LockAcquire(w) ==
    /\ spc[w] = "enter"
    /\ LockFree
    /\ lock' = w
    /\ spc' = [spc EXCEPT ![w] = "load"]
    /\ UNCHANGED <<loaded, returned>>
    /\ UNCHANGED <<oracle, record, parallel, poolSize, epc, tstate, tresult, all_results, completed, output>>
    /\ UNCHANGED monOthers

\* line 88, first half: self.completed is read
LoadCompleted(w) ==
    /\ spc[w] = "load"
    /\ loaded' = [loaded EXCEPT ![w] = completed]
    /\ spc' = [spc EXCEPT ![w] = "store"]
    /\ UNCHANGED <<lock, returned>>
    /\ UNCHANGED <<oracle, record, parallel, poolSize, epc, tstate, tresult, all_results, completed, output>>
    /\ UNCHANGED monOthers

\* line 88, second half: the incremented value is written back
StoreCompleted(w) ==
    /\ spc[w] = "store"
    /\ completed' = loaded[w] + 1
    /\ loaded' = [loaded EXCEPT ![w] = 0]
    /\ spc' = [spc EXCEPT ![w] = "report"]
    /\ UNCHANGED <<lock, returned>>
    /\ UNCHANGED <<oracle, record, parallel, poolSize, epc, tstate, tresult, all_results, output>>
    /\ UNCHANGED monOthers

\* lines 89-112: the progress line, the optional gc.collect(), and the end of
\* the with block
LockRelease(w) ==
    /\ spc[w] = "report"
    /\ lock' = 0
    /\ returned' = [returned EXCEPT ![w] = returned[w] + 1]
    /\ spc' = [spc EXCEPT ![w] = "out"]
    /\ UNCHANGED loaded
    /\ UNCHANGED <<oracle, record, parallel, poolSize, epc, tstate, tresult, all_results, completed, output>>
    /\ UNCHANGED monOthers

MonitorNext ==
    \/ \E w \in Workers : StepCall(w)
    \/ \E w \in Workers : LockAcquire(w)
    \/ \E w \in Workers : LoadCompleted(w)
    \/ \E w \in Workers : StoreCompleted(w)
    \/ \E w \in Workers : LockRelease(w)

----------------------------------------------------------------------------
(* main_handler, handle_pipeline_trigger and background_executor *)

\* requests received in one behaviour
MaxTriggers == 2

\* request paths, one element per character group; rstrip("/") drops the
\* trailing "/" elements
RequestPaths ==
    { <<"/">>, <<"/", "run-pipeline">>, <<"/", "run-pipeline", "/">>, <<"/", "other">> }
RequestMethods == {"GET", "POST"}
\* values of the X-Verify-Token header ("" when the header is absent)
TokenValues == {"", "secret", "wrong"}

RECURSIVE RstripSlash(_)
RstripSlash(path) ==
    IF path # <<>> /\ path[Len(path)] = "/"
    THEN RstripSlash(SubSeq(path, 1, Len(path) - 1))
    ELSE path

\* line 216: verify_token and provided_token and provided_token != verify_token
TokenRejected(provided_token) ==
    verify_token # "" /\ provided_token # "" /\ provided_token # verify_token

\* a trigger that runs the pipeline before it answers
RunInline(queued, run) == queued

\* line 227: background_executor.submit puts the run at the end of the
\* executor's queue and returns its future
Submit(queued, run) == Append(queued, run)

\* ThreadPoolExecutor(max_workers=1)
ExecutorWorkers == 1

\* an executor that starts a thread for every submitted run
AlwaysFree(running) == TRUE

\* a worker thread of the executor is idle
WorkerFree(running) == Cardinality(running) < ExecutorWorkers

\* the response of main_handler: status, body, and whether a run was submitted
Response(method, path, provided_token) ==
    LET p == RstripSlash(path) IN
    IF p = <<>>
    THEN IF method = "GET"
         THEN [status |-> 200, body |-> "healthy", submits |-> FALSE]
         ELSE [status |-> 405, body |-> "Method not allowed", submits |-> FALSE]
    ELSE IF p = <<"/", "run-pipeline">>
    THEN IF method # "POST"
         THEN [status |-> 405, body |-> "Method not allowed", submits |-> FALSE]
         ELSE IF TokenRejected(provided_token)
         THEN [status |-> 401, body |-> "Unauthorized", submits |-> FALSE]
         ELSE [status |-> 202, body |-> "accepted", submits |-> TRUE]
    ELSE [status |-> 404, body |-> "Not found", submits |-> FALSE]

TriggerVarsInit ==
    /\ pending = <<>>
    /\ executing = {}
    /\ finished = <<>>
    /\ responses = <<>>

TriggerInit ==
    /\ verify_token \in {"", "secret"}
    /\ TriggerVarsInit

\* the trigger variables while another component runs
TriggerIdle ==
    /\ verify_token = ""
    /\ TriggerVarsInit

\* main_handler from the request to the returned response
MainHandler(method, path, provided_token) ==
    /\ Len(responses) < MaxTriggers
    /\ LET r == Response(method, path, provided_token) IN
          /\ pending' = IF r.submits THEN Submit(pending, Len(responses) + 1) ELSE pending
          /\ responses' = Append(responses,
                [method |-> method, path |-> path, token |-> provided_token,
                 status |-> r.status, body |-> r.body,
                 runs_unfinished |-> Len(pending) + Cardinality(executing)])
    /\ UNCHANGED <<verify_token, executing, finished>>
    /\ UNCHANGED trigOthers

\* an idle worker of background_executor takes the oldest submitted run; a
\* run is named by the number of the request that submitted it
WorkerStart ==
    /\ pending # <<>>
    /\ WorkerFree(executing)
    /\ pending' = Tail(pending)
    /\ executing' = executing \cup {Head(pending)}
    /\ UNCHANGED <<verify_token, finished, responses>>
    /\ UNCHANGED trigOthers

\* run_complete_pipeline returns; its dict is stored in the future nobody reads
WorkerFinish ==
    /\ \E run \in executing :
          /\ executing' = executing \ {run}
          /\ finished' = Append(finished, run)
    /\ UNCHANGED <<verify_token, pending, responses>>
    /\ UNCHANGED trigOthers

TriggerNext ==
    \/ \E m \in RequestMethods, p \in RequestPaths, t \in TokenValues : MainHandler(m, p, t)
    \/ WorkerStart
    \/ WorkerFinish

----------------------------------------------------------------------------
(* send_newsletter_email *)

\* calls of send_newsletter_email in one behaviour
MaxSends == 2
\* seconds the wall clock advances
MaxSeconds == 1

\* the newsletters handed over
HtmlContents == {"<html>one</html>", "<html>two</html>"}

\* where the try block raises, if anywhere: authenticate_gmail (or the
\* account lookup), building the MIME message, the send call, the log line
\* after the send
FailurePoints == {"none", "auth", "build", "send", "after_send"}

\* the except block without the write
NotWritten(dir, stamp, html_content) == dir

\* lines 67-70: open(newsletter_<timestamp>.html, "w") and write
WriteHtml(dir, stamp, html_content) == [dir EXCEPT ![stamp] = html_content]

SenderInit ==
    /\ wall_clock = 0
    /\ files = [t \in 0..MaxSeconds |-> ""]
    /\ sends = <<>>

\* one call from entry to return: True after the send and its log line;
\* otherwise the except block, which writes the file and returns False, or
\* raises when the file cannot be written
SendNewsletterEmail(html_content, failure, writable) ==
    /\ Len(sends) < MaxSends
    /\ IF failure = "none"
       THEN /\ sends' = Append(sends, [html |-> html_content, failure |-> failure,
                                       transmitted |-> TRUE, ended |-> "True",
                                       stamp |-> wall_clock])
            /\ UNCHANGED files
       ELSE IF writable
       THEN /\ files' = WriteHtml(files, wall_clock, html_content)
            /\ sends' = Append(sends, [html |-> html_content, failure |-> failure,
                                       transmitted |-> (failure = "after_send"),
                                       ended |-> "False", stamp |-> wall_clock])
       ELSE /\ sends' = Append(sends, [html |-> html_content, failure |-> failure,
                                       transmitted |-> (failure = "after_send"),
                                       ended |-> "raised", stamp |-> wall_clock])
            /\ UNCHANGED files
    /\ UNCHANGED wall_clock
    /\ UNCHANGED sendOthers

\* a second passes
SecondPasses ==
    /\ wall_clock < MaxSeconds
    /\ wall_clock' = wall_clock + 1
    /\ UNCHANGED <<files, sends>>
    /\ UNCHANGED sendOthers

SenderNext ==
    \/ \E h \in HtmlContents, f \in FailurePoints, w \in BOOLEAN : SendNewsletterEmail(h, f, w)
    \/ SecondPasses

----------------------------------------------------------------------------
(* The fallback item of _extract_single_email *)

\* messages whose oracle call raised, in one behaviour
MaxFailing == 2
\* the summary keeps at most this many characters of the body
SummaryLimit == 500

\* a body is modelled by its length, a summary by how many leading characters
\* of the body it holds and whether "..." follows them
BodyLengths == {0, SummaryLimit - 1, SummaryLimit, SummaryLimit + 1, 2 * SummaryLimit}

FailingMessageKinds ==
    [subject : {"Weekly digest", "Markets today"},
     sender : {"news@example.com"},
     body_length : BodyLengths,
     classified : BOOLEAN]

\* lines 266-270
FallbackSummary(body_length) ==
    IF body_length > SummaryLimit
    THEN [body_chars |-> SummaryLimit, marker |-> TRUE]
    ELSE [body_chars |-> body_length, marker |-> FALSE]

\* lines 264-289: the item built in the except block
FallbackItem(m) ==
    [title |-> m.subject,
     summary |-> FallbackSummary(m.body_length),
     main_topic |-> "General",
     source_urls |-> <<>>,
     key_points |-> <<"Content from email body">>,
     source_email_subject |-> m.subject,
     source_email_sender |-> m.sender,
     has_classification |-> m.classified]

FnIdle ==
    /\ given = <<>>
    /\ made = <<>>

FallbackItemInit ==
    /\ given \in SeqsUpTo(FailingMessageKinds, MaxFailing)
    /\ made = <<>>

\* the except block runs for the next failing message
BuildFallbackItem ==
    /\ Len(made) < Len(given)
    /\ made' = Append(made, FallbackItem(given[Len(made) + 1]))
    /\ UNCHANGED given
    /\ UNCHANGED fnOthers

----------------------------------------------------------------------------
(* Resolving one subcategory's item ids (categorization.py lines 236-246) *)

\* ids in one subcategory's item_ids
MaxIdsGiven == 2
\* consolidated items the ids refer to
MaxResolvable == 2

\* ids around both ends of the list
IdsGiven == (0 - MaxResolvable - 1)..MaxResolvable

SubcategoryInputs ==
    [item_ids : SeqsUpTo(IdsGiven, MaxIdsGiven), item_count : 0..MaxResolvable]

ResolveInit ==
    /\ given \in {<<sub>> : sub \in SubcategoryInputs}
    /\ made = <<>>

\* the loop over subcategory.item_ids[:max_items_per_category] for the next
\* subcategory: the positions of the items appended, or the IndexError
ResolveSubcategory ==
    /\ Len(made) < Len(given)
    /\ LET sub == given[Len(made) + 1]
           ids == Take(sub.item_ids, MaxItemsPerCategory)
       IN made' = Append(made,
              IF \E k \in DOMAIN ids : IdRaises(ids[k], sub.item_count)
              THEN [raised |-> TRUE, items |-> <<>>]
              ELSE [raised |-> FALSE, items |-> ResolveIds(ids, sub.item_count, 1)])
    /\ UNCHANGED given
    /\ UNCHANGED fnOthers

----------------------------------------------------------------------------
(* The assembly of the newsletter dict (newsletter/categorization.py lines
   174-271, newsletter/fallback.py) with the sanitizers of
   newsletter/sanitization.py, on texts spelled out character by character *)

\* items in one short input list
MaxFallbackItems == 2
\* calls of categorize_and_generate_newsletter on one input
MaxBuilds == 2

UpperCase ==
    <<"A", "B", "C", "D", "E", "F", "G", "H", "I", "J", "K", "L", "M", "N", "O", "P", "Q", "R", "S", "T", "U", "V", "W", "X", "Y", "Z">>
LowerCase ==
    <<"a", "b", "c", "d", "e", "f", "g", "h", "i", "j", "k", "l", "m", "n", "o", "p", "q", "r", "s", "t", "u", "v", "w", "x", "y", "z">>

\* str.lower() on one character and on a text
LowerChar(ch) ==
    IF \E i \in DOMAIN UpperCase : UpperCase[i] = ch
    THEN LowerCase[CHOOSE i \in DOMAIN UpperCase : UpperCase[i] = ch]
    ELSE ch

Lower(text) == [i \in DOMAIN text |-> LowerChar(text[i])]

\* html.escape on one character (quote=True) and on a text
EscapeChar(ch) ==
    CASE ch = "&" -> <<"&", "a", "m", "p", ";">>
      [] ch = "<" -> <<"&", "l", "t", ";">>
      [] ch = ">" -> <<"&", "g", "t", ";">>
      [] ch = "\"" -> <<"&", "q", "u", "o", "t", ";">>
      [] ch = "'" -> <<"&", "#", "x", "2", "7", ";">>
      [] OTHER -> <<ch>>

\* sanitize_content
SanitizeContent(content) == Flatten([i \in DOMAIN content |-> EscapeChar(content[i])])

\* a sanitizer that returns its argument
LeaveContent(content) == content

\* sanitize_item(item, ["title", "summary"]): a copy with both texts escaped
SanitizeItem(item) ==
    [item EXCEPT !.title = SanitizeContent(item.title),
                 !.summary = SanitizeContent(item.summary)]

\* a sanitize_item that writes into the caller's dicts
SanitizedInPlace(items) == [n \in DOMAIN items |-> SanitizeItem(items[n])]

\* the caller's items after sanitize_item ran on each: `sanitized =
\* item.copy()` leaves them as they were
ItemsAfterSanitize(items) == items

\* keyword in text
Contains(text, keyword) ==
    \E k \in 0..(Len(text) - Len(keyword)) :
        SubSeq(text, k + 1, k + Len(keyword)) = keyword

\* DEFAULT_FALLBACK_CATEGORIES, in dict order
DefaultFallbackCategories ==
    <<
      [category |-> "AI",
       keywords |-> {<<"a", "i">>,
                     <<"a", "r", "t", "i", "f", "i", "c", "i", "a", "l", " ", "i", "n", "t", "e", "l", "l", "i", "g", "e", "n", "c", "e">>,
                     <<"m", "a", "c", "h", "i", "n", "e", " ", "l", "e", "a", "r", "n", "i", "n", "g">>,
                     <<"l", "l", "m">>,
                     <<"c", "h", "a", "t", "b", "o", "t">>}],
      [category |-> "Economy",
       keywords |-> {<<"e", "c", "o", "n", "o", "m", "y">>,
                     <<"e", "c", "o", "n", "o", "m", "i", "c">>,
                     <<"g", "d", "p">>,
                     <<"i", "n", "f", "l", "a", "t", "i", "o", "n">>,
                     <<"m", "a", "r", "k", "e", "t">>,
                     <<"f", "i", "n", "a", "n", "c", "i", "a", "l">>}],
      [category |-> "Stocks",
       keywords |-> {<<"s", "t", "o", "c", "k">>,
                     <<"s", "h", "a", "r", "e", "s">>,
                     <<"t", "r", "a", "d", "i", "n", "g">>,
                     <<"e", "q", "u", "i", "t", "y">>,
                     <<"n", "a", "s", "d", "a", "q">>,
                     <<"s", "p", "5", "0", "0">>,
                     <<"d", "o", "w">>}],
      [category |-> "Private Equity",
       keywords |-> {<<"p", "r", "i", "v", "a", "t", "e", " ", "e", "q", "u", "i", "t", "y">>,
                     <<"p", "e">>,
                     <<"b", "u", "y", "o", "u", "t">>,
                     <<"a", "c", "q", "u", "i", "s", "i", "t", "i", "o", "n">>}],
      [category |-> "Politics",
       keywords |-> {<<"p", "o", "l", "i", "t", "i", "c", "s">>,
                     <<"p", "o", "l", "i", "t", "i", "c", "a", "l">>,
                     <<"g", "o", "v", "e", "r", "n", "m", "e", "n", "t">>,
                     <<"e", "l", "e", "c", "t", "i", "o", "n">>,
                     <<"p", "o", "l", "i", "c", "y">>,
                     <<"c", "o", "n", "g", "r", "e", "s", "s">>}],
      [category |-> "Technology",
       keywords |-> {<<"t", "e", "c", "h", "n", "o", "l", "o", "g", "y">>,
                     <<"t", "e", "c", "h">>,
                     <<"s", "o", "f", "t", "w", "a", "r", "e">>,
                     <<"h", "a", "r", "d", "w", "a", "r", "e">>,
                     <<"s", "t", "a", "r", "t", "u", "p">>}] >>

\* lines 46-58: the first category with a keyword in the lower-cased title or
\* summary, or "Other"
KeywordCategory(title, summary) ==
    LET matches(c) == \E keyword \in DefaultFallbackCategories[c].keywords :
                          \/ Contains(Lower(title), keyword)
                          \/ Contains(Lower(summary), keyword)
    IN IF \E c \in DOMAIN DefaultFallbackCategories : matches(c)
       THEN DefaultFallbackCategories[
                CHOOSE c \in DOMAIN DefaultFallbackCategories :
                    /\ matches(c)
                    /\ \A b \in 1..(c - 1) : ~matches(b)].category
       ELSE "Other"

\* `email_category and email_category in categories`; "" is None or no key
CategoryGiven(email_category) ==
    /\ email_category # ""
    /\ \E c \in DOMAIN FallbackCategories : FallbackCategories[c] = email_category

\* lines 39-58: the bucket one sanitized item is appended to
FallbackCategoryOf(sanitized_item) ==
    IF CategoryGiven(sanitized_item.email_primary_category)
    THEN sanitized_item.email_primary_category
    ELSE KeywordCategory(sanitized_item.title, sanitized_item.summary)

\* time.strftime("%B %d, %Y"), for one day
CurrentDate == <<"J", "u", "n", "e", " ", "1">>

\* f"Daily News Digest - {date}"
DefaultTitle ==
    <<"D", "a", "i", "l", "y", " ", "N", "e", "w", "s", " ", "D", "i", "g", "e", "s", "t", " ", "-", " ">> \o CurrentDate

\* lines 24-88: the whole dict, the items being the sanitized copies
FallbackNewsletter(items) ==
    LET sanitized == [k \in DOMAIN items |->
                         SanitizeItem(items[k])]
        placed == CreateFallbackNewsletter(
                      [k \in DOMAIN sanitized |-> FallbackCategoryOf(sanitized[k])])
    IN [title |-> DefaultTitle,
        categories |->
            [c \in DOMAIN placed.categories |->
                [name |-> placed.categories[c].name,
                 subcategories |->
                    << [name |-> "Top Stories",
                        intro |-> [template |-> "Latest developments in {}:",
                                   category_name |-> placed.categories[c].name],
                        items |->
                            [x \in DOMAIN placed.categories[c].subcategories[1].items |->
                                sanitized[placed.categories[c].subcategories[1].items[x] + 1]]
                       ] >>]]]

\* ALLOWED_TAGS
AllowedTags ==
    {<<"p">>,
     <<"b", "r">>,
     <<"s", "t", "r", "o", "n", "g">>,
     <<"e", "m">>,
     <<"a">>,
     <<"u", "l">>,
     <<"l", "i">>}

\* the length of an allowed opening or closing tag without attributes at the
\* head of the text, or 0
AllowedTagAt(text) ==
    LET fits(tag, slash) ==
            LET whole == (IF slash THEN <<"<", "/">> ELSE <<"<">>) \o tag \o <<">">>
            IN Len(text) >= Len(whole) /\ Lower(SubSeq(text, 1, Len(whole))) = whole
    IN IF \E tag \in AllowedTags, slash \in BOOLEAN : fits(tag, slash)
       THEN LET hit == CHOOSE pair \in AllowedTags \X BOOLEAN : fits(pair[1], pair[2])
            IN Len(hit[1]) + (IF hit[2] THEN 3 ELSE 2)
       ELSE 0

\* what bleach.clean writes for a character outside an allowed tag
CleanChar(ch) ==
    CASE ch = "&" -> <<"&", "a", "m", "p", ";">>
      [] ch = "<" -> <<"&", "l", "t", ";">>
      [] ch = ">" -> <<"&", "g", "t", ";">>
      [] OTHER -> <<ch>>

\* sanitize_html_content: bleach.clean keeps the allowed tags and escapes the
\* rest (texts whose allowed tags are balanced and carry no attributes)
RECURSIVE SanitizeHtmlContent(_)
SanitizeHtmlContent(content) ==
    IF content = <<>> THEN <<>>
    ELSE LET tag == AllowedTagAt(content)
         IN IF tag > 0
            THEN SubSeq(content, 1, tag)
                 \o SanitizeHtmlContent(SubSeq(content, tag + 1, Len(content)))
            ELSE CleanChar(content[1]) \o SanitizeHtmlContent(Tail(content))

\* str.replace(old, new)
RECURSIVE Replace(_, _, _)
Replace(text, old, new) ==
    IF Len(text) < Len(old) THEN text
    ELSE IF SubSeq(text, 1, Len(old)) = old
         THEN new \o Replace(SubSeq(text, Len(old) + 1, Len(text)), old, new)
         ELSE <<text[1]>> \o Replace(Tail(text), old, new)

\* the placeholders of lines 212-220, in order
DatePlaceholders ==
    <<<<"[", "D", "a", "t", "e", "]">>,
      <<"[", "d", "a", "t", "e", "]">>,
      <<"{", "D", "a", "t", "e", "}">>,
      <<"{", "d", "a", "t", "e", "}">>,
      <<"{", "{", "D", "a", "t", "e", "}", "}">>,
      <<"{", "{", "d", "a", "t", "e", "}", "}">>,
      <<"<", "<", "D", "a", "t", "e", ">", ">">>>>

\* datetime.now().strftime("%A, %B %d, %Y"), for one day
DisplayDate == <<"M", "o", "n", "d", "a", "y">>

\* lines 212-222: every placeholder found in the title is replaced
RECURSIVE ReplacePlaceholders(_, _)
ReplacePlaceholders(title, k) ==
    IF k > Len(DatePlaceholders) THEN title
    ELSE ReplacePlaceholders(Replace(title, DatePlaceholders[k], DisplayDate), k + 1)

\* lines 205-222: the title of the oracle-built newsletter
TitleOf(newsletter_title) ==
    ReplacePlaceholders(
        IF newsletter_title = <<>> THEN DefaultTitle ELSE newsletter_title, 1)

\* lines 224-260: the dict built from the oracle's NewsletterStructure, the
\* items being the sanitized copies
NewsletterFromStructure(structure, items, enable_executive_summary) ==
    LET built == BuildFromStructure(structure, items)
    IN [title |-> TitleOf(structure.newsletter_title),
        executive_summary |->
            IF enable_executive_summary
            THEN SanitizeHtmlContent(structure.executive_summary) ELSE <<>>,
        categories |->
            [c \in DOMAIN built.categories |->
                [name |-> built.categories[c].name,
                 subcategories |->
                    [s \in DOMAIN built.categories[c].subcategories |->
                        [name |-> structure.categories[c].subcategories[s].subcategory_name,
                         intro |-> SanitizeHtmlContent(
                                       structure.categories[c].subcategories[s].intro_text),
                         items |->
                            [x \in DOMAIN built.categories[c].subcategories[s].items |->
                                SanitizeItem(
                                    items[built.categories[c].subcategories[s].items[x] + 1])]
                        ]]]]]

\* lines 196-271: the except branch, or the else branch and the setdefault
CategorizeAndGenerate(call) ==
    IF call.oracle_failed
    THEN IF call.fallback_to_keywords
         THEN [raised |-> FALSE, built_by |-> "fallback",
               content |-> [executive_summary |-> <<>>] @@ FallbackNewsletter(call.items)]
         ELSE [raised |-> TRUE, built_by |-> "nothing", content |-> <<>>]
    ELSE IF BuildRaises(call.response, call.items)
         THEN [raised |-> TRUE, built_by |-> "nothing", content |-> <<>>]
         ELSE [raised |-> FALSE, built_by |-> "oracle",
               content |-> NewsletterFromStructure(call.response, call.items,
                                                   call.enable_executive_summary)]

ItemTitles ==
    {<<"A", "I">>,
     <<"S", "a", "i", "d">>,
     <<"M", "a", "r", "k", "e", "t">>,
     <<"R", "&", "D">>}

ItemSummaries ==
    {<<"s", "t", "o", "c", "k">>,
     <<"s", "u", "n", "n", "y">>}

\* the category the classifier gave the item's message: none, or one of
\* ClassificationResult.primary_category
EmailCategories == {"", "Stocks"}

FallbackItemKinds ==
    [title : ItemTitles, summary : ItemSummaries, email_primary_category : EmailCategories]

\* one kind of item, as many times as a subcategory may hold and once more
LongLists ==
    {[i \in 1..n |-> kind] :
        kind \in FallbackItemKinds, n \in {MaxItemsPerCategory, MaxItemsPerCategory + 1}}

\* no NewsletterStructure was returned
NoStructure == [newsletter_title |-> <<>>, executive_summary |-> <<>>, categories |-> <<>>]

\* the calls whose oracle attempts all failed
FailedCalls ==
    [items : SeqsUpTo(FallbackItemKinds, MaxFallbackItems) \cup LongLists,
     oracle_failed : {TRUE},
     response : {NoStructure},
     fallback_to_keywords : {TRUE},
     enable_executive_summary : {TRUE}]
    \cup
    [items : SeqsUpTo(FallbackItemKinds, 1),
     oracle_failed : {TRUE},
     response : {NoStructure},
     fallback_to_keywords : {FALSE},
     enable_executive_summary : {TRUE}]

\* ids in a short item_ids list
MaxIdsListed == 2

\* texts the oracle writes: plain, with a date placeholder, with characters
\* and tags that need escaping, with an allowed tag, and none
OracleTitles ==
    {<<"N", "e", "w", "s">>,
     <<"O", "n", " ", "[", "D", "a", "t", "e", "]">>,
     <<"R", "&", "D", " ", "<", "s", "c", "r", "i", "p", "t", ">">>} \cup {<<>>}

OracleTexts ==
    {<<"G", "o">>,
     <<"<", "e", "m", ">", "G", "o", "<", "/", "e", "m", ">", " ", "&", " ", "<", "i", "m", "g", ">">>}

\* the id lists of one subcategory: short ones, and the first
\* max_items_per_category ids and one more
OracleIdLists ==
    SeqsUpTo(0..1, MaxIdsListed)
    \cup {[i \in 1..n |-> i - 1] : n \in {MaxItemsPerCategory, MaxItemsPerCategory + 1}}

\* a NewsletterStructure with one category and one subcategory
OracleStructures ==
    {[newsletter_title |-> title,
      executive_summary |-> text,
      categories |->
          << [category_name |-> "AI",
              subcategories |->
                  << [subcategory_name |-> "Chips",
                      intro_text |-> text,
                      item_ids |-> ids] >>] >>] :
        title \in OracleTitles, text \in OracleTexts, ids \in OracleIdLists}

\* the calls whose oracle attempt succeeded
AnsweredCalls ==
    [items : {[i \in 1..n |-> kind] :
                 kind \in {k \in FallbackItemKinds :
                              /\ k.title \in {<<"A", "I">>, <<"R", "&", "D">>}
                              /\ k.summary = <<"s", "u", "n", "n", "y">>
                              /\ k.email_primary_category = ""},
                 n \in {1, MaxItemsPerCategory + 1}},
     oracle_failed : {FALSE},
     response : OracleStructures,
     fallback_to_keywords : {TRUE},
     enable_executive_summary : BOOLEAN]

AssemblyInit ==
    /\ given \in {<<call>> : call \in FailedCalls \cup AnsweredCalls}
    /\ made = <<>>

\* one call of categorize_and_generate_newsletter on the caller's items as
\* the calls before left them; `given` keeps the items as they were before
\* the first call and after each call
CategorizeAndGenerateNewsletter ==
    /\ Len(made) < MaxBuilds
    /\ LET call == given[Len(given)]
       IN /\ made' = Append(made, CategorizeAndGenerate(call))
          /\ given' = Append(given,
                 [call EXCEPT !.items = ItemsAfterSanitize(call.items)])
    /\ UNCHANGED fnOthers

----------------------------------------------------------------------------
(* The retry wrapper around categorize_with_gemini (newsletter/categorization.py
   lines 49-79, 82) *)

\* backoff_seconds of @retry(max_attempts=3, backoff_seconds=2)
BackoffSeconds == 2

\* what one call of the wrapped function does: return, or raise this error
CallOutcomes == {"ok", "timeout", "bad_schema"}

\* the outcomes the oracle has in store, one more than the wrapper may use
OutcomesInStore == [1..(AssemblyMaxAttempts + 1) -> CallOutcomes]

\* a wrapper that sleeps the same delay every time
KeepDelay(delay) == delay

\* delay *= 2
DoubleDelay(delay) == delay * 2

\* wrapper entered: delay = backoff_seconds, attempt = 0
RetryInit ==
    /\ given \in OutcomesInStore
    /\ made = << [at |-> "call", attempt |-> 0, delay |-> BackoffSeconds,
                  events |-> <<>>, error |-> "none"] >>

\* the calls of func so far
CallsMade(events) == Len(SelectSeq(events, LAMBDA e : e.kind = "call"))

\* lines 58-70: func is called; it returns, or the except block counts the
\* attempt and raises at the last one
WrapperCall ==
    /\ Len(made) = 1
    /\ made[1].at = "call"
    /\ LET w == made[1]
           outcome == given[CallsMade(w.events) + 1]
           called == Append(w.events, [kind |-> "call", outcome |-> outcome, seconds |-> 0])
       IN made' =
            IF outcome = "ok"
            THEN << [w EXCEPT !.at = "returned", !.events = called] >>
            ELSE IF w.attempt + 1 >= AssemblyMaxAttempts
                 THEN << [w EXCEPT !.at = "raised", !.attempt = w.attempt + 1,
                                   !.events = called, !.error = outcome] >>
                 ELSE << [w EXCEPT !.at = "sleep", !.attempt = w.attempt + 1,
                                   !.events = called, !.error = outcome] >>
    /\ UNCHANGED given
    /\ UNCHANGED fnOthers

\* lines 78-79: time.sleep(delay); delay *= 2
WrapperSleep ==
    /\ Len(made) = 1
    /\ made[1].at = "sleep"
    /\ LET w == made[1]
       IN made' = << [w EXCEPT !.at = "call",
                              !.events = Append(w.events,
                                  [kind |-> "sleep", outcome |-> "none", seconds |-> w.delay]),
                              !.delay = DoubleDelay(w.delay)] >>
    /\ UNCHANGED given
    /\ UNCHANGED fnOthers

RetryNext ==
    \/ WrapperCall
    \/ WrapperSleep

----------------------------------------------------------------------------
(* is_news_related and the loop of run_news_classification
   (email_processing.py lines 315-361, 364-388, 426-436); waits in tenths of
   a second *)

\* messages in the classification loop
MaxClassified == 2

\* BACKOFF_BASE_SECONDS, in tenths of a second
BackoffBaseTenths == 10
\* BACKOFF_FACTOR
BackoffFactor == 2
\* BACKOFF_MAX_TOTAL_WAIT, in tenths of a second
BackoffMaxTotalTenths == 300

\* 0.7 + 0.6 * random.random(), in tenths: both ends and the middle
JitterTenths == {7, 10, 13}

\* a message: the oracle raises `raises` times, then answers
ClassifiedKinds == [raises : 0..ClassificationRetries, answer : Answers]

ClassifyLoopInit ==
    /\ given \in SeqsUpTo(ClassifiedKinds, MaxClassified)
    /\ made = << [at |-> "loop", cursor |-> 0, attempt |-> 0, total_wait |-> 0,
                  calls |-> [i \in DOMAIN given |-> 0], news_emails |-> <<>>] >>

\* lines 334-335: the wait before the next attempt
BackoffWait(tried, jitter) == (BackoffBaseTenths * BackoffFactor^tried * jitter) \div 10

\* line 336: no further attempt
GivesUp(tried, total_wait, wait) ==
    total_wait + wait > BackoffMaxTotalTenths \/ tried = ClassificationRetries - 1

\* one round of the for loop of is_news_related for the message at the
\* cursor, and what process_email_for_news and the loop of
\* run_news_classification do with a returned value: a news verdict is
\* appended, a not-news verdict skipped, and reading .is_news of a value
\* that is no verdict raises out of the loop
IsNewsRelatedAttempt ==
    /\ Len(made) = 1
    /\ made[1].at = "loop"
    /\ made[1].cursor < Len(given)
    /\ LET w == made[1]
           i == w.cursor + 1
           called == [w EXCEPT !.calls[i] = w.calls[i] + 1]
           next_message == [called EXCEPT !.cursor = i, !.attempt = 0, !.total_wait = 0]
       IN IF w.attempt < given[i].raises
          THEN \E jitter \in JitterTenths :
                 LET wait == BackoffWait(w.attempt, jitter)
                 IN made' =
                      IF GivesUp(w.attempt, w.total_wait, wait)
                      THEN << next_message >>
                      ELSE << [called EXCEPT !.attempt = w.attempt + 1,
                                             !.total_wait = w.total_wait + wait] >>
          ELSE made' =
                 CASE given[i].answer = "news" ->
                        << [next_message EXCEPT !.news_emails = Append(w.news_emails, i)] >>
                   [] given[i].answer = "not_news" -> << next_message >>
                   [] OTHER -> << [called EXCEPT !.at = "raised"] >>
    /\ UNCHANGED given
    /\ UNCHANGED fnOthers

\* lines 438-441: the loop is over
ClassificationLoopReturn ==
    /\ Len(made) = 1
    /\ made[1].at = "loop"
    /\ made[1].cursor = Len(given)
    /\ made' = << [made[1] EXCEPT !.at = "returned"] >>
    /\ UNCHANGED given
    /\ UNCHANGED fnOthers

ClassifyLoopNext ==
    \/ IsNewsRelatedAttempt
    \/ ClassificationLoopReturn

\* the monitor and the trigger while a pipeline stage runs
SideIdle == MonitorInit /\ TriggerIdle /\ SenderInit /\ FnIdle

----------------------------------------------------------------------------
(* Specifications *)

InitLimiter == LimiterInit /\ ExtractIdle /\ DedupIdle /\ PipelineIdle /\ SideIdle

SpecLimiter == InitLimiter /\ [][LimiterNext]_vars

InitExtract == LimiterInit /\ ExtractInit /\ DedupIdle /\ PipelineIdle /\ SideIdle

SpecExtract == InitExtract /\ [][ExtractNext]_vars

\* the extraction stage given message records of every shape
\* a body that is not text matters only when the oracle call raises, and
\* with a subject that is not text the oracle is never called
MessageKinds ==
    {[outcome |-> o, shape |-> "text"] : o \in OracleOutcomes}
    \cup {[outcome |-> [raises |-> TRUE, count |-> 0], shape |-> "body_none"],
          [outcome |-> [raises |-> FALSE, count |-> 0], shape |-> "subject_none"]}

ExtractAnyInit ==
    /\ \E batch \in SeqsUpTo(MessageKinds, MaxEmails) :
          /\ oracle = [i \in DOMAIN batch |-> batch[i].outcome]
          /\ record = [i \in DOMAIN batch |-> batch[i].shape]
    /\ parallel \in BOOLEAN
    /\ poolSize \in 1..MaxPool
    /\ epc = "start"
    /\ tstate = [i \in DOMAIN oracle |-> "new"]
    /\ tresult = [i \in DOMAIN oracle |-> <<>>]
    /\ all_results = <<>>
    /\ completed = 0
    /\ output = <<>>

InitExtractAny == LimiterInit /\ ExtractAnyInit /\ DedupIdle /\ PipelineIdle /\ SideIdle

SpecExtractAny == InitExtractAny /\ [][ExtractNext]_vars

ExtractSetting ==
    /\ oracle = <<>>
    /\ record = <<>>
    /\ parallel \in BOOLEAN
    /\ poolSize = 1
    /\ epc = "idle"
    /\ tstate = <<>>
    /\ tresult = <<>>
    /\ all_results = <<>>
    /\ completed = 0
    /\ output = <<>>

InitDedup == LimiterInit /\ ExtractSetting /\ DedupInit /\ PipelineIdle /\ SideIdle

SpecDedup == InitDedup /\ [][DedupNext]_vars

InitBucket == LimiterInit /\ ExtractSetting /\ BucketInit /\ PipelineIdle /\ SideIdle

SpecBucket == InitBucket /\ [][DedupNext]_vars

InitPipeline == LimiterInit /\ ExtractIdle /\ DedupIdle /\ PipelineInit /\ SideIdle

SpecPipeline == InitPipeline /\ [][PipelineNext]_vars

\* every stage call of the run returns or raises, and the run goes on
SpecPipelineFair == SpecPipeline /\ WF_vars(PipelineNext)

InitMonitor ==
    /\ LimiterInit /\ ExtractIdle /\ DedupIdle /\ PipelineIdle
    /\ MonitorInit /\ TriggerIdle /\ SenderInit /\ FnIdle

InitTrigger ==
    /\ LimiterInit /\ ExtractIdle /\ DedupIdle /\ PipelineIdle
    /\ MonitorInit /\ TriggerInit /\ SenderInit /\ FnIdle

\* the other components at rest
RestIdle == LimiterInit /\ ExtractIdle /\ DedupIdle /\ PipelineIdle

InitWaiters ==
    /\ WaitersInit /\ ExtractIdle /\ DedupIdle /\ PipelineIdle /\ SideIdle

SpecWaiters == InitWaiters /\ [][WaitersNext]_vars /\ WaitersFairness

InitSender == RestIdle /\ MonitorInit /\ TriggerIdle /\ SenderInit /\ FnIdle

\* everything but the single functions at rest
AllIdle == RestIdle /\ MonitorInit /\ TriggerIdle /\ SenderInit

InitFallbackItem == AllIdle /\ FallbackItemInit

SpecFallbackItem == InitFallbackItem /\ [][BuildFallbackItem]_vars

InitResolve == AllIdle /\ ResolveInit

SpecResolve == InitResolve /\ [][ResolveSubcategory]_vars

InitClassifyLoop == AllIdle /\ ClassifyLoopInit

SpecClassifyLoop == InitClassifyLoop /\ [][ClassifyLoopNext]_vars

InitRetry == AllIdle /\ RetryInit

SpecRetry == InitRetry /\ [][RetryNext]_vars

InitAssembly == AllIdle /\ AssemblyInit

SpecAssembly == InitAssembly /\ [][CategorizeAndGenerateNewsletter]_vars

SpecSender == InitSender /\ [][SenderNext]_vars

SpecTrigger == InitTrigger /\ [][TriggerNext]_vars

SpecMonitor == InitMonitor /\ [][MonitorNext]_vars

InitScenario == LimiterInit /\ ScenarioInit /\ DedupIdle /\ PipelineIdle /\ SideIdle

SpecScenario == InitScenario /\ [][ScenarioNext]_vars

----------------------------------------------------------------------------
(* Claims *)

\* grants whose timestamp lies in the 60-second window starting at w
GrantsInWindow(w) ==
    Cardinality({i \in DOMAIN grants : w <= grants[i] /\ grants[i] < w + WindowSeconds})

\* C3: under every interleaving of the callers, no 60-second window holds more
\* than max_requests_per_minute successful acquire() calls, and a caller that
\* was just refused (it sleeps, the clock has not moved) faces a full window.
C3_WindowNeverExceeded ==
    /\ \A i \in DOMAIN grants : GrantsInWindow(grants[i]) <= MaxRequests
    /\ \A c \in Callers :
          (lpc[c] = "sleep" /\ now < wake[c])
             => GrantsInWindow(now - WindowSeconds + 1) = MaxRequests

\* a caller is blocked while more grants than one window allows have been made
C3_Witness ==
    /\ Len(grants) > MaxRequests
    /\ \E c \in Callers : lpc[c] = "sleep" /\ now < wake[c]


\* what message i contributes: the oracle's items, or one fallback item
ItemsOfMessage(i) == ExtractSingleEmail(i)[2]

\* C1: for every batch, worker count and completion order, the parallel path
\* returns the per-message item lists concatenated in input order.
C1_OutputInInputOrder ==
    (parallel /\ epc = "returned")
        => output = Flatten([i \in Emails |-> ItemsOfMessage(i)])

\* the futures were collected out of input order and the stage has returned
C1_Witness ==
    /\ parallel /\ epc = "returned"
    /\ Len(all_results) >= 2
    /\ \E k \in 1..(Len(all_results) - 1) : all_results[k][1] > all_results[k + 1][1]
    /\ Len(output) >= 2

\* messages whose oracle call raised / returned an explicit empty list
FailingMessages == {i \in Emails : oracle[i].raises}
EmptyMessages == {i \in Emails : ~oracle[i].raises /\ oracle[i].count = 0}

FallbackItemsOf(i) ==
    {k \in DOMAIN output : output[k].src = i /\ output[k].kind = "fallback"}

\* C2 as stated: when the oracle raises for some messages, the stage returns (no
\* exception), each failing message has exactly one fallback item, and the
\* output has at least as many items as there were messages.
C2_AsStated ==
    (epc = "returned" /\ FailingMessages # {})
        => /\ \A i \in FailingMessages : Cardinality(FallbackItemsOf(i)) = 1
           /\ Len(output) >= Len(oracle)

\* C2 amended: every failing message contributes exactly one item, its
\* fallback item, and the count is at least the number of messages less those
\* for which the oracle succeeded with an empty list.
C2_CountExceptEmptyResults ==
    epc = "returned" =>
          /\ \A i \in FailingMessages :
                /\ Cardinality(FallbackItemsOf(i)) = 1
                /\ Cardinality({k \in DOMAIN output : output[k].src = i}) = 1
          /\ Len(output) >= Len(oracle) - Cardinality(EmptyMessages)
    /\ epc \in {"start", "collecting", "sequential", "returned"}

\* the stage returned although the oracle raised for one message and returned
\* an empty list for another
C2_Witness ==
    /\ epc = "returned"
    /\ FailingMessages # {}
    /\ EmptyMessages # {}
    /\ Len(output) < Len(oracle)

\* the categories whose deduplicate_category_items call has returned
FinishedCategories == {c \in CategorySet : dtask[c].state \in {"done", "collected"}}

\* the result items of category c that name id in their provenance
Holders(c, id) ==
    {k \in DOMAIN dtask[c].items : id \in Range(dtask[c].items[k].all_sources)}

\* the part of the stage output that came from category c, in output order
OutputOf(c) == SelectSeq(all_deduplicated_items, LAMBDA it : it.bucket = c)

\* C4 as stated: whatever group list the oracle returns (overlapping groups, a
\* repeated id, an id outside the bucket, an empty group), the original_count
\* values of the list deduplicate_category_items returns add up to the size
\* of the bucket.
C4_CountsSumToBucketSize ==
    \A c \in FinishedCategories :
        SeqSum([k \in DOMAIN dtask[c].items |-> dtask[c].items[k].original_count])
            = Len(categories[c])

FailedCategories == {c \in FinishedCategories : dtask[c].failed}

\* item k of a result is bucket entry k on its own
IsSingletonOfEntry(it, p) ==
    /\ it.group_type = "unique"
    /\ it.original_count = 1
    /\ it.all_sources = <<p.original_index>>

\* every id of the bucket is named by exactly one item of the result
CoversBucket(c) ==
    \A id \in BucketIds(categories[c]) : Cardinality(Holders(c, id)) = 1

\* a step of one category's task leaves the task of every other category alone
TasksIsolated ==
    dpc = "running" =>
        \A c \in CategorySet :
            dtask'[c] # dtask[c] => \A b \in CategorySet \ {c} : dtask'[b] = dtask[b]

\* C6: when the oracle fails on all attempts for exactly one category, the
\* stage returns; that category's items come back one by one (group_type
\* unique, original_count 1), every other category's result is in the output
\* as its own task produced it, and no step of the failing task touches
\* another category's task.
C6_FailureIsolated ==
    /\ [](\A c \in CategorySet :
            (dpc = "returned" /\ FailedCategories = {c}) =>
               /\ Len(OutputOf(c)) = Len(categories[c])
               /\ \A k \in DOMAIN categories[c] :
                     IsSingletonOfEntry(OutputOf(c)[k], categories[c][k])
               /\ \A b \in NonEmptyCategories \ {c} :
                     /\ OutputOf(b) = dtask[b].items
                     /\ CoversBucket(b))
    /\ [][TasksIsolated]_vars

\* one category failed on every attempt while another came back merged
C6_Witness ==
    /\ dpc = "returned"
    /\ \E c \in CategorySet :
          /\ FailedCategories = {c}
          /\ Len(categories[c]) >= 2
          /\ \E b \in NonEmptyCategories \ {c} :
                \E k \in DOMAIN OutputOf(b) :
                    /\ OutputOf(b)[k].kind = "group"
                    /\ OutputOf(b)[k].original_count >= 2

\* C7 as stated: every oracle call of the run, whichever stage makes it, comes
\* right after wait_if_needed returned in the same task.
C7_EveryOracleCallGated ==
    \A call \in oracle_calls : call.gated

\* the content has a category, and its categories and subcategories are whole
NonEmptyAndWhole(content) ==
    /\ content.categories # <<>>
    /\ \A i \in DOMAIN content.categories :
          /\ "name" \in DOMAIN content.categories[i]
          /\ \A j \in DOMAIN content.categories[i].subcategories :
                "items" \in DOMAIN content.categories[i].subcategories[j]

\* C8 as stated: categorize_and_generate_newsletter returns a structure only
\* if its categories list is non-empty, every category is named and every
\* subcategory has an items list; a run whose assembled structure is anything
\* else sends no newsletter.
C8_OnlyNonEmptyStructuresPass ==
    /\ newsletter_content.built_by # "none" => NonEmptyAndWhole(newsletter_content)
    /\ "send" \in invoked => NonEmptyAndWhole(newsletter_content)

\* the assembly oracle raised on every attempt of the retry wrapper
AssemblyExhausted == "assembly" \in invoked /\ attempt = AssemblyMaxAttempts

\* the deduplicated items (by position) a category of the content holds
ItemsUnder(content, name) ==
    {x \in 0..(Len(deduplicated_items) - 1) :
        \E i \in DOMAIN content.categories :
            /\ content.categories[i].name = name
            /\ \E j \in DOMAIN content.categories[i].subcategories :
                  x \in Range(content.categories[i].subcategories[j].items)}

\* the content is the keyword fallback's: every item under the category of
\* its bucket and under no other, and no category without items
IsKeywordFallback(content) ==
    /\ content.built_by = "fallback"
    /\ \A x \in 0..(Len(deduplicated_items) - 1) :
          \A name \in Range(FallbackCategories) :
              x \in ItemsUnder(content, name) <=> deduplicated_items[x + 1] = name
    /\ \A i \in DOMAIN content.categories :
          ItemsUnder(content, content.categories[i].name) # {}

\* rendering or delivery raised after the assembly
LaterStepRaised == result.note \in {"HTML generation failed", "Email delivery failed"}

\* C9: once the assembly oracle has failed on every attempt, a run with
\* fallback_to_keywords disabled returns a failure and neither renders nor
\* sends; a run with it enabled goes on with the keyword fallback's structure
\* and returns a success, rendering and delivery not raising.
C9_AssemblyFailureOutcome ==
    (ppc = "done" /\ AssemblyExhausted) =>
        IF fallback_to_keywords
        THEN /\ IsKeywordFallback(newsletter_content)
             /\ result.success <=> ~LaterStepRaised
        ELSE /\ ~result.success
             /\ invoked \cap {"render", "send"} = {}
             /\ newsletter_content = NoContent

\* the oracle failed three times, the fallback sorted the items into two
\* categories and the run reported success
C9_Witness ==
    /\ ppc = "done"
    /\ AssemblyExhausted
    /\ fallback_to_keywords
    /\ result.success
    /\ Len(newsletter_content.categories) = 2

\* C10: a run whose classification finds no news returns a success with
\* news_emails = 0, having called none of extraction, deduplication, assembly,
\* rendering and sending (and no oracle but the classifier's).
C10_NoNewsEndsRun ==
    (ppc = "done" /\ news_emails = 0
        /\ result.note \notin {"Authentication failed", "Pipeline failed with error"}) =>
        /\ result.success
        /\ result.news_emails = 0
        /\ invoked = {}
        /\ \A call \in oracle_calls : call.stage = "classification"

\* two messages were classified, none as news, and the run is over
C10_Witness ==
    /\ ppc = "done"
    /\ total_emails >= 2
    /\ oracle_calls # {}
    /\ news_emails = 0
    /\ result.success

\* the positions (in the deduplicated list) of the items the final structure
\* shows under the category of that name
ShownUnder(name) ==
    Flatten([i \in DOMAIN newsletter_content.categories |->
        IF newsletter_content.categories[i].name = name
        THEN Flatten([j \in DOMAIN newsletter_content.categories[i].subcategories |->
                newsletter_content.categories[i].subcategories[j].items])
        ELSE <<>>])

\* the deduplication oracle merged the two AI items into one group
MergedTheAIItems ==
    \E k \in DOMAIN all_deduplicated_items :
        /\ all_deduplicated_items[k].bucket = "AI"
        /\ all_deduplicated_items[k].kind = "group"
        /\ all_deduplicated_items[k].all_sources = <<0, 1>>

\* C11: messages classified AI, AI, Stocks with one extracted item each, the
\* two AI items merged by the deduplication oracle and every consolidated item
\* placed under its category, end in a structure of exactly 2 categories
\* whose AI category holds one item with original_count = 2.
C11_TwoCategoriesMergedAI ==
    (newsletter_content.built_by = "oracle" /\ MergedTheAIItems) =>
        /\ Len(newsletter_content.categories) = 2
        /\ {newsletter_content.categories[i].name :
               i \in DOMAIN newsletter_content.categories} = {"AI", "Stocks"}
        /\ Len(ShownUnder("AI")) = 1
        /\ all_deduplicated_items[ShownUnder("AI")[1] + 1].original_count = 2
        /\ Len(ShownUnder("Stocks")) = 1

\* the run reached the assembled structure with the AI items merged
C11_Witness ==
    /\ newsletter_content.built_by = "oracle"
    /\ MergedTheAIItems
    /\ Len(all_deduplicated_items) = 2
    /\ Len(output) = 3

\* the three ways a run with content may end
EndedSent == result.success /\ result.email_sent
EndedSavedLocally ==
    result.success /\ ~result.email_sent /\ "save_html" \in invoked
EndedFailure ==
    /\ ~result.success
    /\ result.note \in {"Newsletter generation failed", "HTML generation failed",
                        "Email delivery failed"}

\* C12: a run that extracted at least one item comes to an end, and ends in
\* exactly one of: newsletter sent, HTML saved locally after a send failure,
\* failure result with an error message; it returns a result (never raises)
\* and never ends without one of the three.
C12_ThreeOutcomes ==
    /\ <>(ppc = "done")
    /\ []((ppc = "done" /\ item_count > 0) =>
            /\ EndedSent \/ EndedSavedLocally \/ EndedFailure
            /\ ~(EndedSent /\ EndedSavedLocally)
            /\ ~(EndedSent /\ EndedFailure)
            /\ ~(EndedSavedLocally /\ EndedFailure))

\* a run with content whose send failed and whose HTML was saved
C12_Witness ==
    /\ ppc = "done"
    /\ item_count > 0
    /\ EndedSavedLocally

\* C13: when authenticate_multiple_accounts returns no account the run is over
\* at once with a failure result: no message was fetched or classified, no
\* stage was called, no oracle call was made.
C13_NoAccountsAbortsFirst ==
    (ppc \notin {"idle", "start"} /\ accounts = 0) =>
        /\ ppc = "done"
        /\ ~result.success
        /\ result.note = "Authentication failed"
        /\ total_emails = 0 /\ cursor = 0 /\ news_emails = 0 /\ item_count = 0
        /\ invoked = {}
        /\ oracle_calls = {}
        /\ newsletter_content = NoContent

\* the run ended at authentication
C13_Witness ==
    /\ ppc = "done"
    /\ accounts = 0
    /\ ~result.success

\* how many recorded timestamps lie within the trailing window at time t
RecordedWithin(reqs, t) ==
    Cardinality({i \in DOMAIN reqs : t - reqs[i] < WindowSeconds})

\* C14: acquire returns True, adding one timestamp to those of the window,
\* exactly when fewer than max_requests_per_minute recorded timestamps lie
\* within the trailing 60 seconds; when it returns False the recorded list is
\* what it was before the call.
C14_AcquireContract ==
    [][\A c \in Callers :
          /\ (lpc[c] = "try" /\ lpc'[c] = "granted") =>
                /\ RecordedWithin(requests, now) < MaxRequests
                /\ Len(requests') = RecordedWithin(requests, now) + 1
                /\ requests'[Len(requests')] = now'
          /\ (lpc[c] = "try" /\ lpc'[c] = "sleep") =>
                /\ RecordedWithin(requests, now) >= MaxRequests
                /\ requests' = requests]_vars

\* a caller was refused, after the clock had moved, with the window full
C14_Witness ==
    /\ \E c \in Callers : lpc[c] = "sleep"
    /\ RecordedWithin(requests, now) = MaxRequests
    /\ ticks > 0
    /\ Len(grants) > MaxRequests

\* step_completed calls that have returned, over all threads
CallsReturned == SeqSum(returned)

\* C15: whatever the interleaving of concurrent step_completed calls, no
\* increment is lost: completed counts every call that has written its
\* increment, and once k calls have returned and none is in progress,
\* completed = k.
C15_NoLostIncrement ==
    /\ completed = CallsReturned + Cardinality({w \in Workers : spc[w] = "report"})
    /\ (\A w \in Workers : spc[w] = "out") => completed = CallsReturned

\* a thread waits for the lock while another is between its read and its write
C15_Witness ==
    \E w, v \in Workers :
        /\ spc[w] = "store"
        /\ spc[v] = "enter"
        /\ completed > 0

ContributionOf(i) == IF Escapes(i) THEN <<>> ELSE ItemsOfMessage(i)

\* C17: for the same messages and the same per-message oracle outcomes, the
\* sequential path returns exactly the list the parallel path returns, for
\* every worker count and completion order: both return the list fixed by
\* the messages and outcomes alone.
C17_SequentialSameAsParallel ==
    epc = "returned" => output = Flatten([i \in Emails |-> ContributionOf(i)])

\* the sequential path has returned items of several messages, one of them a
\* fallback item, and one message's call ended in an exception
C17_Witness ==
    /\ ~parallel /\ epc = "returned"
    /\ \E k \in DOMAIN output : output[k].kind = "fallback"
    /\ \E k, l \in DOMAIN output : output[k].src < output[l].src
    /\ \E i \in Emails : Escapes(i)

\* categorize_news_items has run on the input list
Bucketed == dpc \in {"running", "returned"} /\ Len(news_items) > 1

\* the places (bucket, position) where input item i sits as a primary /
\* as a secondary placement
PrimaryPlaces(i) ==
    UNION {{<<c, k>> : k \in {n \in DOMAIN categories[c] :
                                 /\ categories[c][n].original_index = i - 1
                                 /\ ~categories[c][n].is_secondary}} :
           c \in CategorySet}

SecondaryPlaces(i) ==
    UNION {{<<c, k>> : k \in {n \in DOMAIN categories[c] :
                                 /\ categories[c][n].original_index = i - 1
                                 /\ categories[c][n].is_secondary}} :
           c \in CategorySet}

\* C18: categorize_news_items gives every item exactly one primary
\* placement: in the bucket of its email_primary_category when that is one of
\* the fixed names, otherwise in Other.
C18_OnePrimaryPlacement ==
    Bucketed =>
        \A i \in DOMAIN news_items :
            /\ Cardinality(PrimaryPlaces(i)) = 1
            /\ \A p \in PrimaryPlaces(i) :
                  p[1] = IF news_items[i].primary \in CategorySet
                         THEN news_items[i].primary ELSE "Other"

\* the list held an item with a fixed category, one routed to Other for an
\* unknown category, and secondary placements were made
C18_Witness ==
    /\ Bucketed
    /\ \E i \in DOMAIN news_items : news_items[i].primary = "Gossip"
    /\ \E i \in DOMAIN news_items :
          news_items[i].primary = "AI" /\ SecondaryPlaces(i) # {}

\* C19: every item, those routed to Other included, has a copy marked
\* is_secondary_category in every bucket named by a valid entry of its
\* email_secondary_categories.
C19_SecondaryCopyEverywhere ==
    Bucketed =>
        \A i \in DOMAIN news_items :
            \A n \in DOMAIN news_items[i].secondary :
                news_items[i].secondary[n] \in CategorySet =>
                    \E p \in SecondaryPlaces(i) : p[1] = news_items[i].secondary[n]

\* C20: categorize_news_items leaves the input list and its items as they
\* were (no key added), and in every bucket the placements follow the input
\* order.
C20_InputKeptOrderKept ==
    /\ [](\A i \in DOMAIN news_items :
             DOMAIN news_items[i] = {"primary", "secondary"})
    /\ [](Bucketed =>
             \A c \in CategorySet :
                 \A k, l \in DOMAIN categories[c] :
                     k < l => categories[c][k].original_index
                                 <= categories[c][l].original_index)
    /\ [][news_items' = news_items]_vars

\* a bucket holds placements of two different items, one of them secondary
C20_Witness ==
    /\ Bucketed
    /\ \E c \in CategorySet :
          \E k, l \in DOMAIN categories[c] :
              /\ categories[c][k].original_index < categories[c][l].original_index
              /\ categories[c][k].is_secondary \/ categories[c][l].is_secondary

\* the responses given to POST requests on the trigger path
TriggerPosts ==
    {k \in DOMAIN responses :
        /\ responses[k].method = "POST"
        /\ RstripSlash(responses[k].path) = <<"/", "run-pipeline">>}

Accepted == {k \in DOMAIN responses : responses[k].status = 202}

\* a run is submitted for every acknowledgement, and every submitted run is
\* waiting, executing or finished
RunsMatchAcknowledgements ==
    /\ Cardinality(Accepted) = Len(pending) + Cardinality(executing) + Len(finished)
    /\ \A k \in Accepted : responses[k].body = "accepted"

\* C21 as stated: every POST to /run-pipeline submits a run and is answered
\* with the 202 acknowledgement, which never carries the run's result, also
\* while an earlier run is executing.
C21_AsStated ==
    /\ \A k \in TriggerPosts : k \in Accepted
    /\ RunsMatchAcknowledgements

\* C21 amended: every POST to /run-pipeline that the verification-token
\* check lets through submits a run and is answered with the 202
\* acknowledgement, which never carries the run's result, also while an
\* earlier run is executing; no other request submits a run.
C21_AcceptedUnlessTokenRejected ==
    /\ \A k \in TriggerPosts :
          k \in Accepted <=> ~TokenRejected(responses[k].token)
    /\ Accepted \subseteq TriggerPosts
    /\ RunsMatchAcknowledgements

\* a POST was acknowledged while an earlier run was still executing, and its
\* own run has not started
C21_Witness ==
    \E k \in Accepted :
        /\ responses[k].runs_unfinished > 0
        /\ executing # {}
        /\ pending # <<>>
        /\ finished = <<>>

\* the call that the step just taken added to sends
LastSend == sends'[Len(sends')]

\* C22: send_newsletter_email returns True only when the transmission call
\* completed; when authentication, message building or transmission fails
\* and it returns False, the full HTML is by then in the file named by the
\* timestamp: a False return implies the HTML was persisted.
C22_FalseMeansSaved ==
    [][Len(sends') > Len(sends) =>
          /\ LastSend.ended = "True" => LastSend.transmitted /\ LastSend.failure = "none"
          /\ LastSend.ended = "False" =>
                /\ LastSend.failure # "none"
                /\ files'[LastSend.stamp] = LastSend.html
          /\ (LastSend.failure \in {"auth", "build", "send"} /\ LastSend.ended # "raised")
                => LastSend.ended = "False"]_vars

\* a transmission failure ended in False with the file written, after an
\* earlier failed call had written another newsletter
C22_Witness ==
    /\ Len(sends) = 2
    /\ sends[1].ended = "False" /\ sends[1].html # sends[2].html
    /\ sends[2].ended = "False" /\ sends[2].failure = "send"
    /\ files[sends[2].stamp] = sends[2].html

\* C23: with time advancing and finitely many callers, every call of
\* wait_if_needed eventually returns: a caller that is trying or sleeping
\* eventually holds a slot.
C23_EveryWaitReturns ==
    \A c \in WaitingCallers : (lpc[c] \in {"try", "sleep"}) ~> (lpc[c] = "granted")

\* a caller refused with the window full has got its slot after the window
\* rolled over
C23_Witness ==
    /\ \A c \in WaitingCallers : lpc[c] = "granted"
    /\ Len(grants) = MaxRequests + 1
    /\ grants[1] = now - WindowSeconds
    /\ Len(requests) = 1

\* the model of the k-th clustering call for a bucket: the primary model
\* first, the secondary model afterwards
ExpectedModel(k) == IF k = 1 THEN "flash" ELSE "flash-lite"

\* C24: for one bucket deduplicate_category_items makes at most 3 oracle
\* calls, the first with the primary model and every later one with the
\* secondary model; a call that raises or returns no group list is retried,
\* and after the third failed attempt no further call is made and the bucket
\* comes back as singletons.
C24_AtMostThreeCalls ==
    \A c \in CategorySet :
        /\ Len(dtask[c].calls) <= 3
        /\ \A k \in DOMAIN dtask[c].calls : dtask[c].calls[k] = ExpectedModel(k)
        /\ dtask[c].state = "call" =>
              /\ Len(dtask[c].calls) = dtask[c].attempt
              /\ dtask[c].attempt < 3
              /\ ~dtask[c].failed
        /\ (dtask[c].state \in {"done", "collected"} /\ dtask[c].failed) =>
              /\ Len(dtask[c].calls) = 3
              /\ Len(dtask[c].items) = Len(categories[c])
              /\ \A k \in DOMAIN dtask[c].items :
                    IsSingletonOfEntry(dtask[c].items[k], categories[c][k])

\* a bucket of two items came back as singletons after three failed calls
\* while another bucket is at its second call
C24_Witness ==
    \E c, b \in CategorySet :
        /\ dtask[c].state \in {"done", "collected"} /\ dtask[c].failed
        /\ Len(categories[c]) >= 2
        /\ dtask[b].state = "call" /\ dtask[b].attempt = 1

\* the ids named by the consolidated items among a task's result items
ClaimedBy(items) ==
    UNION {Range(items[k].all_sources) : k \in {n \in DOMAIN items : items[n].kind = "group"}}

\* one round of the group loop of category c: the group was skipped, leaving
\* the claimed ids and the result as they were, or it was accepted, named no
\* id claimed before, and claimed its ids
GroupRound(c) ==
    (dtask[c].state = "groups" /\ dtask'[c].state = "groups" /\ dtask'[c] # dtask[c]) =>
        \/ /\ dtask'[c].items = dtask[c].items
           /\ dtask'[c].processed = dtask[c].processed
        \/ /\ Len(dtask'[c].items) = Len(dtask[c].items) + 1
           /\ SubSeq(dtask'[c].items, 1, Len(dtask[c].items)) = dtask[c].items
           /\ Range(dtask'[c].items[Len(dtask'[c].items)].all_sources)
                 \cap dtask[c].processed = {}
           /\ dtask'[c].processed =
                 dtask[c].processed
                    \cup Range(dtask'[c].items[Len(dtask'[c].items)].all_sources)

\* the bucket entries left unclaimed each come back once, on their own
UnclaimedComeBackAlone(c) ==
    LET singles == SelectSeq(dtask[c].items, LAMBDA it : it.kind # "group")
        left == SelectSeq(categories[c],
                          LAMBDA p : p.original_index \notin ClaimedBy(dtask[c].items))
    IN /\ Len(singles) = Len(left)
       /\ \A k \in DOMAIN singles : IsSingletonOfEntry(singles[k], left[k])

\* C25: the groups are processed in returned order; a group naming an id
\* claimed by an earlier accepted group is skipped whole (no item, no id
\* claimed); every bucket item claimed by no accepted group, also one named
\* only by skipped groups, comes back as its own singleton (group_type
\* unique, original_count 1).
C25_OverlappingGroupsSkipped ==
    /\ [][\A c \in CategorySet : GroupRound(c)]_vars
    /\ [](\A c \in CategorySet :
             /\ dtask[c].state = "groups" => dtask[c].processed = ClaimedBy(dtask[c].items)
             /\ dtask[c].state \in {"done", "collected"} => UnclaimedComeBackAlone(c))

\* after an accepted group a second group was skipped, and an item of the
\* bucket is claimed by no accepted group
C25_Witness ==
    \E c \in CategorySet :
        /\ dtask[c].state = "groups"
        /\ dtask[c].seen = 2
        /\ Len(dtask[c].items) = 1
        /\ BucketIds(categories[c]) \ dtask[c].processed # {}

\* C26: the fallback item has title = the subject, summary = the body
\* unchanged up to 500 characters and else its first 500 characters and the
\* truncation marker, topic General, an empty source-URL list, an empty
\* key-point list, and the provenance of its message.
C26_FallbackItemFields ==
    \A k \in DOMAIN made :
        /\ made[k].title = given[k].subject
        /\ made[k].summary.body_chars = Min(given[k].body_length, 500)
        /\ made[k].summary.marker = (given[k].body_length > 500)
        /\ made[k].main_topic = "General"
        /\ made[k].source_urls = <<>>
        /\ made[k].key_points = <<>>
        /\ made[k].source_email_subject = given[k].subject
        /\ made[k].source_email_sender = given[k].sender

\* the ids of a list that lie within 0 .. n-1, in order
InRangeIds(ids, n) == SelectSeq(ids, LAMBDA id : 0 <= id /\ id < n)

\* C27: resolving a subcategory's item ids ignores every id outside
\* 0..len(items)-1, negative ids included (no item added, no error), and
\* resolves every in-range id to the item at that index.
C27_OutOfRangeIdsIgnored ==
    \A k \in DOMAIN made :
        /\ ~made[k].raised
        /\ made[k].items = InRangeIds(given[k].item_ids, given[k].item_count)

\* the lengths of the item lists of every subcategory of a newsletter dict
ItemListLengths(content) ==
    Flatten([c \in DOMAIN content.categories |->
        [j \in DOMAIN content.categories[c].subcategories |->
            Len(content.categories[c].subcategories[j].items)]])

\* C28 as stated: in every structure returned by
\* categorize_and_generate_newsletter, built from the oracle response or from
\* the keyword fallback, every subcategory's item list has at most
\* max_items_per_category items.
C28_AsStated ==
    \A k \in DOMAIN made :
        ~made[k].raised =>
            \A n \in DOMAIN ItemListLengths(made[k].content) :
                ItemListLengths(made[k].content)[n] <= MaxItemsPerCategory

\* C28: in every structure built from the oracle response every
\* subcategory's item list has at most max_items_per_category items; the
\* structure built by the keyword fallback holds every input item, each
\* category's items in its one subcategory, however many they are.
C28_OracleListsTruncated ==
    \A k \in DOMAIN made :
        /\ made[k].built_by = "oracle" =>
              \A n \in DOMAIN ItemListLengths(made[k].content) :
                  ItemListLengths(made[k].content)[n] <= MaxItemsPerCategory
        /\ made[k].built_by = "fallback" =>
              /\ SeqSum(ItemListLengths(made[k].content)) = Len(given[1].items)
              /\ \A c \in DOMAIN made[k].content.categories :
                    Len(made[k].content.categories[c].subcategories) = 1

\* the oracle listed more ids than a subcategory may hold, all of them in
\* range, and the subcategory holds the first max_items_per_category of them
C28_Witness ==
    /\ made # <<>>
    /\ made[1].built_by = "oracle"
    /\ Len(given[1].response.categories[1].subcategories[1].item_ids) > MaxItemsPerCategory
    /\ Len(given[1].items) > MaxItemsPerCategory
    /\ ItemListLengths(made[1].content) = <<MaxItemsPerCategory>>

\* C30: on the fallback path each item is in the first category, in the
\* order AI, Economy, Stocks, Private Equity, Politics, Technology, one of
\* whose keywords occurs in its lower-cased title or summary, and in Other
\* when no keyword matches: its place depends on its title and summary only.
C30_FirstKeywordCategory ==
    \A k \in DOMAIN made :
        made[k].built_by = "fallback" =>
            \A c \in DOMAIN made[k].content.categories :
                LET category == made[k].content.categories[c]
                IN \A x \in DOMAIN category.subcategories[1].items :
                      category.name =
                          KeywordCategory(category.subcategories[1].items[x].title,
                                          category.subcategories[1].items[x].summary)

\* the value is what one of the sanitization functions returns for the text
SanitizedFrom(value, text) ==
    \/ value = SanitizeContent(text)
    \/ value = SanitizeHtmlContent(text)

\* the item is the sanitized copy of one of the input items
SanitizedItemOf(item, items) ==
    \E n \in DOMAIN items :
        /\ SanitizedFrom(item.title, items[n].title)
        /\ SanitizedFrom(item.summary, items[n].summary)
        /\ item.email_primary_category = items[n].email_primary_category

\* C29: every free-text field of the structure leaving the assembly stage
\* has passed through a sanitization function: the newsletter title, the
\* executive summary, every subcategory intro text written by the oracle, and
\* every item's title and summary.
C29_FreeTextSanitized ==
    \A k \in DOMAIN made :
        ~made[k].raised =>
            LET content == made[k].content
                call == given[1]
            IN /\ made[k].built_by = "oracle" =>
                     /\ SanitizedFrom(content.title, TitleOf(call.response.newsletter_title))
                     /\ \/ content.executive_summary = <<>>
                        \/ SanitizedFrom(content.executive_summary,
                                         call.response.executive_summary)
                     /\ \A c \in DOMAIN content.categories :
                           \A j \in DOMAIN content.categories[c].subcategories :
                               SanitizedFrom(
                                   content.categories[c].subcategories[j].intro,
                                   call.response.categories[c].subcategories[j].intro_text)
               /\ made[k].built_by = "fallback" =>
                     SanitizedFrom(content.title, DefaultTitle)
               /\ \A c \in DOMAIN content.categories :
                     \A j \in DOMAIN content.categories[c].subcategories :
                         \A x \in DOMAIN content.categories[c].subcategories[j].items :
                             SanitizedItemOf(
                                 content.categories[c].subcategories[j].items[x],
                                 call.items)

\* how many times v occurs in a list
RECURSIVE Occurrences(_, _)
Occurrences(v, list) ==
    IF list = <<>> THEN 0
    ELSE (IF Head(list) = v THEN 1 ELSE 0) + Occurrences(v, Tail(list))

\* part can be had from whole by leaving elements out, the order kept
RECURSIVE InOrderOf(_, _)
InOrderOf(part, whole) ==
    IF part = <<>> THEN TRUE
    ELSE IF whole = <<>> THEN FALSE
    ELSE IF Head(part) = Head(whole) THEN InOrderOf(Tail(part), Tail(whole))
    ELSE InOrderOf(part, Tail(whole))

\* all items of a newsletter dict, category after category
AllItemsOf(content) ==
    Flatten([c \in DOMAIN content.categories |->
        Flatten([j \in DOMAIN content.categories[c].subcategories |->
            content.categories[c].subcategories[j].items])])

\* the sanitized copies of the input items, in input order
SanitizedInput == [n \in DOMAIN given[1].items |-> SanitizeItem(given[1].items[n])]

\* C31: in the structure built by create_fallback_newsletter every input
\* item appears in exactly one category; every category with at least one
\* item appears exactly once, with exactly one subcategory named Top Stories
\* that holds the category's items in input order; no empty category is
\* emitted.
C31_FallbackPartition ==
    \A k \in DOMAIN made :
        made[k].built_by = "fallback" =>
            LET content == made[k].content
            IN /\ Len(AllItemsOf(content)) = Len(SanitizedInput)
               /\ \A n \in DOMAIN SanitizedInput :
                     Occurrences(SanitizedInput[n], AllItemsOf(content))
                         = Occurrences(SanitizedInput[n], SanitizedInput)
               /\ \A c, d \in DOMAIN content.categories :
                     content.categories[c].name = content.categories[d].name => c = d
               /\ \A c \in DOMAIN content.categories :
                     /\ Len(content.categories[c].subcategories) = 1
                     /\ content.categories[c].subcategories[1].name = "Top Stories"
                     /\ content.categories[c].subcategories[1].items # <<>>
                     /\ InOrderOf(content.categories[c].subcategories[1].items,
                                  SanitizedInput)

\* two different items were put into one category and a third category-less
\* bucket stayed out of the structure
C31_Witness ==
    /\ made # <<>>
    /\ made[1].built_by = "fallback"
    /\ Len(made[1].content.categories) = 1
    /\ Len(made[1].content.categories[1].subcategories[1].items) = 2
    /\ made[1].content.categories[1].subcategories[1].items[1]
           # made[1].content.categories[1].subcategories[1].items[2]

FirstOk(n) ==
    IF \E i \in 1..n : given[i] = "ok"
    THEN CHOOSE i \in 1..n : given[i] = "ok" /\ \A j \in 1..(i - 1) : given[j] # "ok"
    ELSE 0

\* C33: the assembly oracle call is attempted at most 3 times; after the
\* k-th failed attempt (k < 3) the caller waits 2 * 2^(k-1) seconds before
\* the next attempt; the first successful attempt's result is returned with
\* no further calls; after the third failure the last error is raised
\* without another wait.
C33_RetrySchedule ==
    LET w == made[1]
        events == w.events
    IN /\ CallsMade(events) <= 3
       /\ \A i \in DOMAIN events :
             /\ events[i].kind = "call" => events[i].outcome = given[(i + 1) \div 2]
             /\ events[i].kind = "call" /\ events[i].outcome = "ok" => i = Len(events)
             /\ events[i].kind = "call" /\ events[i].outcome # "ok" /\ i < Len(events) =>
                   events[i + 1].kind = "sleep"
             /\ events[i].kind = "sleep" =>
                   /\ i > 1
                   /\ events[i - 1].kind = "call"
                   /\ events[i - 1].outcome # "ok"
                   /\ CallsMade(SubSeq(events, 1, i)) < 3
                   /\ events[i].seconds = 2 * 2^(CallsMade(SubSeq(events, 1, i)) - 1)
       /\ w.at = "returned" =>
             /\ FirstOk(3) # 0
             /\ CallsMade(events) = FirstOk(3)
             /\ events[Len(events)].kind = "call"
       /\ w.at = "raised" =>
             /\ FirstOk(3) = 0
             /\ CallsMade(events) = 3
             /\ events[Len(events)].kind = "call"
             /\ w.error = given[3]
       /\ w.at = "call" /\ events # <<>> => events[Len(events)].kind = "sleep"

\* two failures with different errors, waits of 2 s and 4 s, and the third
\* call's error raised while a fourth outcome was in store
C33_Witness ==
    /\ made[1].at = "raised"
    /\ given[1] # given[3]
    /\ given[4] = "ok"
    /\ Len(made[1].events) = 5
    /\ made[1].events[2].seconds = 2
    /\ made[1].events[4].seconds = 4

\* the oracle attempts of the extraction stage: each call_gemini_sdk follows
\* one grant of the limiter (news_extraction.py lines 222-223), and no grant
\* is dropped while the clock stands
ExtractionAttempts == Len(requests)

\* the messages whose result is the synthesized fallback item
FallbackMessages ==
    {i \in Emails : /\ tresult[i] # <<>>
                    /\ \E k \in DOMAIN tresult[i][2] : tresult[i][2][k].kind = "fallback"}

\* C34: a failed oracle call is retried before the stage-local fallback is
\* used; in particular the extraction fallback item is synthesized only
\* after more than one failed oracle attempt for that message: with one
\* attempt at least for every message, the stage makes at least one more for
\* every message that ends with the fallback item.
C34_FallbackAfterRetries ==
    epc = "returned" =>
        ExtractionAttempts >= Len(oracle) + Cardinality(FallbackMessages)

\* C35: every item returned by deduplicate_and_aggregate_news, for any input
\* size including 0 or 1, carries a cluster type and a member count that
\* agree: unique if and only if the count is 1, duplicate or similar only
\* with a count of at least 2.
C35_TypeAndCountAgree ==
    dpc = "returned" =>
        \A k \in DOMAIN all_deduplicated_items :
            LET item == all_deduplicated_items[k]
            IN /\ item.group_type \in GroupTypes
               /\ item.original_count >= 1
               /\ item.group_type = "unique" <=> item.original_count = 1
               /\ item.group_type \in {"duplicate", "similar"} => item.original_count >= 2

\* C36: no item returned by the deduplication stage contains the
\* original_index scratch field, whether it is the consolidated item of an
\* accepted group, an unclaimed singleton, a singleton of the per-bucket
\* failure fallback, or an item the short-circuit hands back.
C36_NoOriginalIndex ==
    /\ \A k \in DOMAIN all_deduplicated_items :
          ~all_deduplicated_items[k].has_original_index
    /\ \A c \in CategorySet : \A k \in DOMAIN dtask[c].items :
          ~dtask[c].items[k].has_original_index

\* the stage returned the consolidated item of a group together with an item
\* emitted on its own
C36_Witness ==
    /\ dpc = "returned"
    /\ \E k \in DOMAIN all_deduplicated_items : all_deduplicated_items[k].kind = "group"
    /\ \E k \in DOMAIN all_deduplicated_items : all_deduplicated_items[k].kind = "single"

\* C37: is_news_related makes at most 3 oracle calls per message and
\* returns the first verdict; when all attempts fail it returns not-news, so
\* that a message whose classification fails is left out of the news list
\* and the classification loop is never aborted: the loop returns exactly
\* the messages whose oracle answered "news" within three attempts.
C37_ClassificationNeverAborts ==
    /\ made[1].at # "raised"
    /\ \A i \in DOMAIN given : made[1].calls[i] <= 3
    /\ made[1].at = "returned" =>
          made[1].news_emails =
              SelectSeq([i \in DOMAIN given |-> i],
                        LAMBDA i : given[i].raises < 3 /\ given[i].answer = "news")

\* C38: however many /run-pipeline triggers arrive and however they
\* interleave, at most one run_complete_pipeline execution is in progress at
\* any time; later triggers wait in the executor's queue and run one after
\* another in arrival order: every finished run was submitted before the
\* executing one, and that one before every waiting run.
C38_OneRunAtATime ==
    /\ Cardinality(executing) <= 1
    /\ Ascending(finished)
    /\ Ascending(pending)
    /\ \A f \in Range(finished) : \A e \in executing : f < e
    /\ \A f \in Range(finished) : \A p \in Range(pending) : f < p
    /\ \A e \in executing : \A p \in Range(pending) : e < p
    /\ Range(finished) \cup executing \cup Range(pending) = Accepted

\* the second trigger was acknowledged while the first run was executing,
\* waited, and is executing now that the first run has finished
C38_Witness ==
    /\ Len(finished) = 1
    /\ Cardinality(executing) = 1
    /\ \E k \in executing :
          /\ responses[k].runs_unfinished = 1
          /\ finished[1] < k

\* C39: when CLOUD_RUN_VERIFY_TOKEN is configured, a POST to /run-pipeline
\* whose X-Verify-Token header differs from the configured token, the
\* missing or empty header included, is answered with 401 and submits no
\* run: every run waiting, executing or finished was submitted by a request
\* that carried the configured token.
C39_WrongTokenNeverRuns ==
    verify_token # "" =>
        /\ \A k \in TriggerPosts :
              responses[k].token # verify_token => responses[k].status = 401
        /\ \A k \in Range(pending) \cup executing \cup Range(finished) :
              responses[k].token = verify_token

\* the secondary placements categorize_news_items made
SecondaryPlacementCount ==
    SeqSum([n \in 1..Len(CategoryNames) |->
               Len(SelectSeq(categories[CategoryNames[n]], LAMBDA p : p.is_secondary))])

\* the output items that stand for input item i
OutputItemsOf(i) ==
    {k \in DOMAIN all_deduplicated_items :
        i - 1 \in Range(all_deduplicated_items[k].all_sources)}

====
